---- MODULE Spec2Model ----
(***************************************************************************)
(* Model of the FA archiver client library (falib), the viewer's rolling   *)
(* buffer, and the byte-stream reassembly they rest on.                    *)
(*                                                                         *)
(* These specifications share this module:                                 *)
(*   SpecMask  mask encoding (format_mask, normalise_mask, count_mask)     *)
(*   SpecBuf   the viewer's circular buffer (buffer.py, class buffer)      *)
(*   SpecConn  connection / subscription over a chunked TCP byte stream    *)
(*   SpecMon   the viewer's stream monitor (buffer.py, class monitor)      *)
(*   SpecQuery the decoding of the server's answers to CF, CC and CFCK     *)
(*   SpecAudio the audio players' subscriber, queue and player tasks       *)
(*   SpecMean  the running mean of the spectrum and lines monitors         *)
(*   SpecBins  the spectrum's frequency bin boundaries (Compute.__init__)  *)
(***************************************************************************)
EXTENDS Integers, Sequences, FiniteSets, TLC

VARIABLES
    \* ---- mask encoding
    mask,           \* the list of FA ids handed to the encoder
    fm_op,          \* which encoder has been applied: "none", "ranges", "hex"
    fm_count,       \* count returned (number of bits set)
    fm_text,        \* the text placed in the subscribe command
    \* ---- rolling buffer (viewer/buffer.py, class buffer)
    buffer,         \* self.buffer: buffer_size rows of <<x, y>>
    buf_op,         \* last operation applied: "init", "write", "reset", "read"
    buf_prev,       \* contents before the last operation
    buf_block,      \* argument of the last write
    buf_raised,     \* the last write raised ValueError
    buf_size,       \* argument of the last read
    buf_view,       \* rows returned by the last read
    \* ---- connection / subscription
    variant,        \* "hex" (falib.py) or "ranges" (falib/falib.py, fa_archiver/falib/falib.py)
    want_t0,        \* the t0 argument of falib.py's subscription
    stream,         \* every byte the server sends on this connection
    rcvd,           \* number of bytes the socket has handed to recv so far
    peer_closed,    \* the server has closed its end
    sock_closed,    \* self.sock.close() has been called
    close0,         \* number of close() calls, and the reads made and bytes
                    \* returned when the first of them was made
    sub_state,      \* "created", "status", "errmsg", "t0", "streaming", "failed"
    hs_c,           \* c, the status byte read by the constructor
    hs_len,         \* number of bytes the constructor has consumed
    count,          \* self.count
    t0,             \* self.t0, an unsigned 32 bit number as [hi, lo] 16 bit halves
    err_text,       \* text of the connection.Error raised by the constructor
    raised,         \* exception ending the last call: "none", "Error", "EOF", "timeout",
                    \* "error" (socket.error on a closed socket),
                    \* "struct" (struct.error), "ValueError"
    buf,            \* self.buf, the leftover bytes
    pc,             \* "idle", or "recv": read_block is suspended in self.recv()
    rb_length,      \* length of the read_block in progress / last made
    rb_rx,          \* read_block's rx
    rb_result,      \* read_block's result array
    rd_samples,     \* samples of the subscription.read in progress / last made
    rd_t0_before,   \* self.t0 on entry of that read
    rd_pos,         \* number of bytes returned before that read
    block,          \* array returned by the last read: [samples][count][2]
    returned,       \* concatenation of every block read_block has returned
    samples_done,   \* sum of samples over the reads that returned
    nreads,         \* number of read calls made
    nfailed,        \* number of read calls that raised
    \* ---- stream monitor (viewer/buffer.py, class monitor)
    running,        \* self.running
    id,             \* self.id
    decimated,      \* self.decimated
    update_size,    \* self.update_size
    notify_size,    \* self.notify_size
    data_ready,     \* self.data_ready
    mon_buffer,     \* self.buffer.buffer
    subs,           \* every subscription object created so far
    subscription,   \* self.subscription: index into subs, 0 before the first
    task,           \* self.task: "none", "spawned", "read" (suspended in
                    \* subscription.read), "done", "died" (uncaught exception)
    task_samples,   \* samples asked for by the read in flight
    task_notify,    \* notify_size when the read in flight was issued
    ctl_pc,         \* controlling flow: "idle", "handshake" (suspended in
                    \* server.subscription), "wait" (suspended in task.Wait)
    ctl_call,       \* the call in progress / last made
    ctl_running,    \* set_channel's local running
    ctl_args,       \* arguments of the call in progress / last made
    ctl_last,       \* how the last call ended, "" while one is in progress
    cb,             \* callbacks invoked so far: counts, last on_eof text,
                    \* last on_data value, and the calls in order
    run0,           \* cb when the current run began (start set running)
    call0,          \* monitor state on entry of the call in progress / last made
    last_cycle,     \* the last completed read cycle of the loop
    attempts,       \* number of subscriptions the monitor has tried to create
    reads_issued,   \* number of subscription.read calls issued
    ncalls,         \* number of calls made by the controlling flow
    \* ---- server queries (CF, CC, CFCK commands)
    q_reply,        \* everything the server sends in answer to the command
    q_op,           \* the query made: "none", "Server", "get_sample_frequency",
                    \* "get_decimation", "get_sample_frequency_F0"
    q_raised,       \* exception the query ended with, "none" if it returned
    q_result,       \* what it returned / the attributes it set
    \* ---- audio players (audio/audio.py, audio/player.py)
    a_variant,      \* "audio" (audio/audio.py) or "player" (audio/player.py)
    a_queue,        \* the EventQueue between subscriber and player
    a_subs,         \* every Sub object created so far: running, its task,
                    \* its bpm, whether its subscription is open
    a_sub,          \* self.sub / sub: index into a_subs
    a_shell,        \* command loop: "idle", or "wait" (in process.Wait())
    a_arg,          \* the bpm of the command in progress
    a_player,       \* player task: "wait" (in queue.Wait()), "write" (in
                    \* poll_list with a block in hand)
    a_hand,         \* the block the player is writing out, if any
    a_played,       \* blocks written out so far
    a_log,          \* every block read so far, with the queue length found
                    \* and whether it was queued
    a_exited,       \* os._exit has been called
    \* ---- running mean (spectrum/spectrum.py, spectrum.py, lines/lines.py)
    m_variant,      \* "spectrum" (spectrum/spectrum.py), "spectrum0"
                    \* (spectrum.py) or "lines" (lines/lines.py, class mean)
    m_running,      \* self.running of spectrum/spectrum.py's Monitor
    m_target,       \* target_pv's value / self.target
    m_acc,          \* count, total_sum and total_power / self.sum
    m_count_pv,     \* the value last written to count_pv
    m_log,          \* every pair computed and every outside event so far
    m_emitted,      \* every mean handed to update_mean so far
    \* ---- spectrum bins (spectrum/spectrum.py, class Compute)
    b_half,         \* half_sample_size
    b_fs,           \* F_S, the sample frequency of the decimated stream
    b_frequencies,  \* frequencies, strictly increasing
    b_op,           \* "none", or "init" once Compute.__init__ has run
    b_raised,       \* exception Compute.__init__ ended with, else "none"
    b_bins,         \* self.bins
    b_fft_length,   \* self.fft_length
    b_bin_scale,    \* self.bin_scale, as fractions
    \* ---- rolling buffer against a log (viewer/buffer.py)
    l_buffer,       \* self.buffer
    l_log,          \* capacity zeros, then every row written since
                    \* construction or the last reset
    \* ---- spectrum overlap (spectrum/spectrum.py, Compute.compute)
    o_half,         \* half_sample_size
    o_last,         \* self.last
    o_log,          \* per call of compute: the data handed in and the
                    \* block handed to the window and the transform
    \* ---- column permutation (lines/lines.py, line-analyser.py)
    p_ids,          \* FA_IDS
    p_permute,      \* PERMUTE, once computed
    p_op,           \* "none", "permute" or "read"
    p_iq            \* iq after iq = iq[PERMUTE]

vars_mask == <<mask, fm_op, fm_count, fm_text>>
vars_buf  == <<buffer, buf_op, buf_prev, buf_block, buf_raised, buf_size, buf_view>>
vars_sock == <<stream, rcvd, peer_closed>>
vars_close == <<sock_closed, close0>>
vars_read == <<rb_length, rb_rx, rb_result, rd_samples, rd_t0_before, rd_pos,
               block, returned, samples_done, nreads, nfailed>>
vars_conn == <<variant, want_t0, vars_sock, vars_close, sub_state, hs_c, hs_len,
               count, t0, err_text, raised, buf, pc, vars_read>>
vars_mon  == <<running, id, decimated, update_size, notify_size, data_ready,
               mon_buffer, subs, subscription, task, task_samples, task_notify,
               ctl_pc, ctl_call, ctl_running, ctl_args, ctl_last, cb, run0,
               call0, last_cycle, attempts, reads_issued, ncalls>>
vars_query == <<q_reply, q_op, q_raised, q_result>>
vars_audio == <<a_variant, a_queue, a_subs, a_sub, a_shell, a_arg, a_player,
                a_hand, a_played, a_log, a_exited>>
vars_mean == <<m_variant, m_running, m_target, m_acc, m_count_pv, m_log,
               m_emitted>>
vars_bins == <<b_half, b_fs, b_frequencies, b_op, b_raised, b_bins,
               b_fft_length, b_bin_scale>>
vars_log == <<l_buffer, l_log>>
vars_overlap == <<o_half, o_last, o_log>>
vars_permute == <<p_ids, p_permute, p_op, p_iq>>
vars_late == <<vars_log, vars_overlap, vars_permute>>
vars_aux  == <<vars_query, vars_audio, vars_mean, vars_bins, vars_late>>
vars_main == <<vars_mask, vars_buf, vars_conn, vars_mon>>
vars == <<vars_main, vars_aux>>

(***************************************************************************)
(* Python helpers                                                          *)
(***************************************************************************)

\* Python's a[start:stop] on a sequence of length n, after None has been
\* replaced by 0 / n: negative indices count from the end, both are clamped.
PyIndex(i, n) ==
    IF i < 0 THEN (IF n + i < 0 THEN 0 ELSE n + i)
    ELSE (IF i > n THEN n ELSE i)

PySlice(s, start, stop) ==
    LET a == PyIndex(start, Len(s))
        b == PyIndex(stop, Len(s))
    IN  IF b <= a THEN <<>> ELSE SubSeq(s, a + 1, b)

\* a[start:] and a[:stop]
PyFrom(s, start) == PySlice(s, start, Len(s))
PyUpTo(s, stop) == PySlice(s, 0, stop)

RECURSIVE Concat(_)
\* ''.join(list): the concatenation of a sequence of sequences
Concat(ss) ==
    IF ss = <<>> THEN <<>> ELSE Head(ss) \o Concat(Tail(ss))

RECURSIVE Join(_, _)
\* sep.join(list)
Join(sep, ss) ==
    IF ss = <<>> THEN <<>>
    ELSE IF Len(ss) = 1 THEN Head(ss)
    ELSE Head(ss) \o sep \o Join(sep, Tail(ss))

Reversed(s) ==
    [i \in 1..Len(s) |-> s[Len(s) + 1 - i]]

SetOf(s) == {s[i] : i \in 1..Len(s)}

SetMin(S) == CHOOSE x \in S : \A y \in S : x <= y

RECURSIVE SortedSet(_)
\* sorted(list(set(mask)))
SortedSet(S) ==
    IF S = {} THEN <<>>
    ELSE <<SetMin(S)>> \o SortedSet(S \ {SetMin(S)})

HexDigits == <<"0", "1", "2", "3", "4", "5", "6", "7",
               "8", "9", "A", "B", "C", "D", "E", "F">>

RECURSIVE FormatD(_)
\* '%d' % n for n >= 0: decimal digits, no padding
FormatD(n) ==
    IF n < 10 THEN <<HexDigits[n + 1]>>
    ELSE FormatD(n \div 10) \o <<HexDigits[(n % 10) + 1]>>

\* '%02X' % x for 0 <= x < 256: two upper-case hex digits
Format02X(x) ==
    <<HexDigits[(x \div 16) + 1], HexDigits[(x % 16) + 1]>>

(***************************************************************************)
(* Mask encoding, range-list variant (falib/falib.py, fa_archiver/falib)   *)
(***************************************************************************)

\* One range written out by the loop of format_mask.
FormatRange(first, last) ==
    IF last = first THEN FormatD(last)
    ELSE FormatD(first) \o <<"-">> \o FormatD(last)

RECURSIVE FormatLoop_CmpFirst(_, _, _, _)
\* FormatLoop with the range test made against first instead of last.
FormatLoop_CmpFirst(ids, first, last, ranges) ==
    IF ids = <<>> THEN Append(ranges, FormatRange(first, last))
    ELSE IF Head(ids) # first + 1
         THEN FormatLoop_CmpFirst(Tail(ids), Head(ids), Head(ids),
                                  Append(ranges, FormatRange(first, last)))
         ELSE FormatLoop_CmpFirst(Tail(ids), first, Head(ids), ranges)

RECURSIVE FormatLoop(_, _, _, _)
\* The loop "for id in mask[1:] + [None]"; ids holds the remaining ids and the
\* final None is the empty remainder, which always breaks the range.
FormatLoop(ids, first, last, ranges) ==
    IF ids = <<>> THEN Append(ranges, FormatRange(first, last))
    ELSE IF Head(ids) # last + 1
         THEN FormatLoop(Tail(ids), Head(ids), Head(ids),
                         Append(ranges, FormatRange(first, last)))
         ELSE FormatLoop(Tail(ids), first, Head(ids), ranges)

\* format_mask(mask) of the range-list library: (count, text)
format_mask(m) ==
    LET sorted == SortedSet(SetOf(m))
    IN  [count |-> Len(sorted),
         text  |-> Join(<<",">>, FormatLoop(Tail(sorted), sorted[1], sorted[1], <<>>))]

(***************************************************************************)
(* Mask encoding, hex bitmask variant (falib.py)                           *)
(***************************************************************************)

MASK_SIZE == 256

\* bit b of the byte x
BitOf(x, b) == (x \div (2 ^ b)) % 2

\* normalise_mask: MASK_SIZE / 8 bytes, index 0 first; bit (i % 8) of byte
\* (i // 8) is set for every i of the mask
normalise_mask(m) ==
    [j \in 1..(MASK_SIZE \div 8) |->
        LET bits == {b \in 0..7 : \E k \in 1..Len(m) :
                        m[k] \div 8 = j - 1 /\ m[k] % 8 = b}
            RECURSIVE Sum(_)
            Sum(B) == IF B = {} THEN 0
                      ELSE LET b == CHOOSE b \in B : TRUE
                           IN  2 ^ b + Sum(B \ {b})
        IN  Sum(bits)]

\* format_mask of falib.py with reversed() left out: first byte first.
format_mask_hex_NoReverse(nmask) ==
    Concat([i \in 1..Len(nmask) |-> Format02X(nmask[i])])

\* format_mask of falib.py: '%02X' of every byte, last byte first
format_mask_hex(nmask) ==
    Concat([i \in 1..Len(nmask) |-> Format02X(Reversed(nmask)[i])])

\* count_mask: the number of i in range(MASK_SIZE) whose bit is set
count_mask(nmask) ==
    Cardinality({i \in 0..(MASK_SIZE - 1) : BitOf(nmask[(i \div 8) + 1], i % 8) = 1})

(***************************************************************************)
(* SpecMask: the encoders applied to every bounded list of ids             *)
(***************************************************************************)

\* Bound on the length of the id list handed to the encoder.
MaxMaskLen == 4

\* The ids the lists are drawn from: both ends of [0, 255], a run of three
\* neighbours, and one-, two- and three-digit ids.
IdChoices == {0, 9, 10, 11, 255}

MaskInputs ==
    UNION {[1..n -> IdChoices] : n \in 1..MaxMaskLen}

NoCall ==
    /\ sub_state = "created" /\ hs_c = 0 /\ hs_len = 0 /\ count = 0
    /\ t0 = [hi |-> 0, lo |-> 0] /\ err_text = <<>>
    /\ raised = "none" /\ buf = <<>> /\ pc = "idle" /\ rb_length = 0 /\ rb_rx = 0
    /\ rb_result = <<>> /\ rd_samples = 0 /\ rd_t0_before = [hi |-> 0, lo |-> 0]
    /\ rd_pos = 0 /\ block = <<>> /\ returned = <<>> /\ samples_done = 0
    /\ nreads = 0 /\ nfailed = 0
    /\ sock_closed = FALSE /\ close0 = [n |-> 0, nreads |-> 0, pos |-> 0]

IdleConn ==
    /\ variant = "ranges" /\ want_t0 = FALSE
    /\ stream = <<>> /\ rcvd = 0 /\ peer_closed = FALSE
    /\ NoCall

IdleBuf ==
    /\ buffer = <<>> /\ buf_op = "none" /\ buf_prev = <<>> /\ buf_block = <<>>
    /\ buf_raised = FALSE /\ buf_size = 0 /\ buf_view = <<>>

IdleMask ==
    /\ mask = <<>> /\ fm_op = "none" /\ fm_count = 0 /\ fm_text = <<>>

\* No callback has been invoked.
NoCallbacks ==
    [n_connect |-> 0, n_data |-> 0, n_eof |-> 0, eof_text |-> <<>>,
     last_data |-> <<>>, trace |-> <<>>]

NoCycle ==
    [kind |-> "none", run |-> 0, read_no |-> 0, samples |-> 0, block |-> <<>>,
     notify0 |-> 0, notify |-> 0, update |-> 0, text |-> "", n_data |-> 0,
     ncalls |-> 0, ctl |-> "idle", attempts |-> 0]

NoSnapshot ==
    [cb |-> NoCallbacks, attempts |-> 0, reads |-> 0, task |-> "none",
     samples |-> 0, running |-> FALSE, buffer |-> <<>>, subscription |-> 0,
     nsubs |-> 0, id |-> 0, decimated |-> FALSE]

NoArgs ==
    [id |-> [given |-> FALSE, val |-> 0],
     decimated |-> [given |-> FALSE, val |-> FALSE],
     notify_size |-> 0, update_size |-> 0]

\* Everything of the monitor but its sizes and its buffer, as the
\* constructor leaves it.
MonitorCreated ==
    /\ running = FALSE /\ id = 0 /\ decimated = FALSE /\ data_ready = 0
    /\ subs = <<>> /\ subscription = 0
    /\ task = "none" /\ task_samples = 0 /\ task_notify = 0
    /\ ctl_pc = "idle" /\ ctl_call = "none" /\ ctl_running = FALSE
    /\ ctl_args = NoArgs /\ ctl_last = "" /\ cb = NoCallbacks
    /\ run0 = NoCallbacks /\ call0 = NoSnapshot /\ last_cycle = NoCycle
    /\ attempts = 0 /\ reads_issued = 0 /\ ncalls = 0

IdleMon ==
    /\ update_size = 0 /\ notify_size = 0 /\ mon_buffer = <<>>
    /\ MonitorCreated

\* No attribute set, nothing returned.
NoResult ==
    [sample_frequency |-> [num |-> 0, den |-> 1], decimation |-> 0,
     fa_id_count |-> 0, set |-> {}]

IdleQuery ==
    /\ q_reply = <<>> /\ q_op = "none" /\ q_raised = "none"
    /\ q_result = NoResult

IdleAudio ==
    /\ a_variant = "audio" /\ a_queue = <<>> /\ a_subs = <<>> /\ a_sub = 0
    /\ a_shell = "idle" /\ a_arg = 0 /\ a_player = "wait" /\ a_hand = <<>>
    /\ a_played = <<>> /\ a_log = <<>> /\ a_exited = FALSE

\* count = 0 and both totals zero
ZeroAcc == [count |-> 0, sum |-> 0, power |-> 0]

IdleMean ==
    /\ m_variant = "spectrum" /\ m_running = TRUE /\ m_target = 1
    /\ m_acc = ZeroAcc /\ m_count_pv = 0 /\ m_log = <<>> /\ m_emitted = <<>>

IdleBins ==
    /\ b_half = 0 /\ b_fs = 0 /\ b_frequencies = <<>> /\ b_op = "none"
    /\ b_raised = "none" /\ b_bins = <<>> /\ b_fft_length = 0
    /\ b_bin_scale = <<>>

IdleLog == l_buffer = <<>> /\ l_log = <<>>

IdleOverlap == o_half = 0 /\ o_last = <<>> /\ o_log = <<>>

IdlePermute ==
    p_ids = <<>> /\ p_permute = <<>> /\ p_op = "none" /\ p_iq = <<>>

IdleLate == IdleLog /\ IdleOverlap /\ IdlePermute

IdleAux == IdleQuery /\ IdleAudio /\ IdleMean /\ IdleBins /\ IdleLate

InitMask ==
    /\ mask \in MaskInputs
    /\ fm_op = "none" /\ fm_count = 0 /\ fm_text = <<>>
    /\ IdleBuf /\ IdleConn /\ IdleMon /\ IdleAux

\* subscription.__init__ of the range-list library: self.count, format = format_mask(mask)
EncodeRanges ==
    /\ fm_op = "none"
    /\ fm_op' = "ranges"
    /\ fm_count' = format_mask(mask).count
    /\ fm_text' = format_mask(mask).text
    /\ UNCHANGED <<mask, vars_buf, vars_conn, vars_mon, vars_aux>>

\* subscription.__init__ of falib.py: normalise_mask, count_mask, format_mask
EncodeHex ==
    /\ fm_op = "none"
    /\ fm_op' = "hex"
    /\ fm_count' = count_mask(normalise_mask(mask))
    /\ fm_text' = format_mask_hex(normalise_mask(mask))
    /\ UNCHANGED <<mask, vars_buf, vars_conn, vars_mon, vars_aux>>

NextMask == EncodeRanges \/ EncodeHex

SpecMask == InitMask /\ [][NextMask]_vars

(***************************************************************************)
(* Reading the range list back (what the server does with the text)        *)
(***************************************************************************)

DecDigits == {HexDigits[i] : i \in 1..10}

DigitVal(c) == (CHOOSE i \in 1..16 : HexDigits[i] = c) - 1

RECURSIVE ParseD(_)
ParseD(s) ==
    IF s = <<>> THEN 0
    ELSE 10 * ParseD(SubSeq(s, 1, Len(s) - 1)) + DigitVal(s[Len(s)])

\* a decimal number as '%d' writes it: digits only, no leading zero
IsDecimal(s) ==
    /\ s # <<>>
    /\ \A i \in 1..Len(s) : s[i] \in DecDigits
    /\ (Len(s) > 1 => s[1] # "0")

RECURSIVE SplitOn(_, _, _)
\* s.split(sep), with cur the piece being collected
SplitOn(s, sep, cur) ==
    IF s = <<>> THEN <<cur>>
    ELSE IF Head(s) = sep THEN <<cur>> \o SplitOn(Tail(s), sep, <<>>)
    ELSE SplitOn(Tail(s), sep, Append(cur, Head(s)))

\* the items of a range list, each split at "-"
Items(text) ==
    LET parts == SplitOn(text, ",", <<>>)
    IN  [i \in 1..Len(parts) |-> SplitOn(parts[i], "-", <<>>)]

ItemFirst(it) == ParseD(it[1])
ItemLast(it) == ParseD(it[Len(it)])

\* 'id' or 'first-last' with first < last
ItemWellFormed(it) ==
    /\ Len(it) \in {1, 2}
    /\ \A k \in 1..Len(it) : IsDecimal(it[k])
    /\ (Len(it) = 2 => ItemFirst(it) < ItemLast(it))

DecodeRanges(text) ==
    UNION {ItemFirst(Items(text)[i])..ItemLast(Items(text)[i]) : i \in 1..Len(Items(text))}

\* C7: for every non-empty list of ids in [0,255], in any order and with any
\* duplicates, format_mask returns count = the number of distinct ids and a
\* comma-separated list of 'id' / 'first-last' items that are ascending,
\* non-overlapping and maximal (the next item starts beyond last + 1), and
\* the decoded set of ids is the set of the input.
C7_RangeListRoundTrip ==
    fm_op = "ranges" =>
        LET items == Items(fm_text)
        IN  /\ fm_count = Cardinality(SetOf(mask))
            /\ \A i \in 1..Len(items) : ItemWellFormed(items[i])
            /\ \A i \in 1..(Len(items) - 1) :
                   ItemFirst(items[i + 1]) > ItemLast(items[i]) + 1
            /\ DecodeRanges(fm_text) = SetOf(mask)

\* An unordered list with a duplicate, encoded as a range and a single id.
C7_Witness ==
    /\ fm_op = "ranges"
    /\ mask = <<10, 0, 9, 10>>
    /\ fm_count = 3
    /\ fm_text = <<"0", ",", "9", "-", "1", "0">>

\* the value (0..15) of the hex digit holding bit i of a 64-digit string,
\* most significant digit first
HexBit(text, i) ==
    BitOf(DigitVal(text[Len(text) - (i \div 4)]), i % 4)

\* C8: for every non-empty list of ids in [0,255], normalise_mask followed by
\* format_mask yields exactly 64 hexadecimal digits, most significant byte
\* first, in which bit i of the 256-bit value is 1 iff i is in the set, and
\* count_mask of the normalised mask is the number of distinct ids.
C8_HexMaskBits ==
    fm_op = "hex" =>
        /\ Len(fm_text) = 64
        /\ \A k \in 1..Len(fm_text) : fm_text[k] \in SetOf(HexDigits)
        /\ \A i \in 0..255 : (HexBit(fm_text, i) = 1) <=> (i \in SetOf(mask))
        /\ fm_count = Cardinality(SetOf(mask))

\* Ids 0, 9 and 255 (given twice, out of order): bits in the last digit,
\* in the second-last byte and in the first digit.
C8_Witness ==
    /\ fm_op = "hex"
    /\ mask = <<255, 9, 0, 9>>
    /\ fm_count = 3
    /\ fm_text[1] = "8" /\ fm_text[64] = "1" /\ fm_text[62] = "2"

(***************************************************************************)
(* The viewer's circular buffer (viewer/buffer.py, class buffer)           *)
(***************************************************************************)

\* buffer_size handed to the constructor.
BufferSize == 3

\* The <<x, y>> samples blocks are made of.
SampleVals == {<<0, 0>>, <<1, -2>>}

Zeros(n) == [i \in 1..n |-> <<0, 0>>]

\* numpy's a[start:stop] = src on rows: src must have as many rows as the
\* slice, or one row, which is broadcast; anything else raises ValueError
\* and leaves a as it was.
SliceAssign(a, start, stop, src) ==
    LET lo == PyIndex(start, Len(a))
        hi == PyIndex(stop, Len(a))
        n  == IF hi > lo THEN hi - lo ELSE 0
    IN  IF Len(src) = n
        THEN [raised |-> FALSE,
              array  |-> [i \in 1..Len(a) |->
                            IF i > lo /\ i <= lo + n THEN src[i - lo] ELSE a[i]]]
        ELSE IF Len(src) = 1
        THEN [raised |-> FALSE,
              array  |-> [i \in 1..Len(a) |->
                            IF i > lo /\ i <= lo + n THEN src[1] ELSE a[i]]]
        ELSE [raised |-> TRUE, array |-> a]

\* buffer.__init__
buffer_init(buffer_size) == Zeros(buffer_size)

\* buffer.write without its first assignment: the block overwrites the tail
\* and nothing moves down.
buffer_write_NoShift(b, blk) ==
    SliceAssign(b, -Len(blk), Len(b), blk)

\* buffer.write with the shift made by one row instead of blen rows.
buffer_write_ShiftOne(b, blk) ==
    LET blen  == Len(blk)
        shift == SliceAssign(b, 0, -1, PyFrom(b, 1))
    IN  IF shift.raised THEN shift
        ELSE SliceAssign(shift.array, -blen, Len(b), blk)

\* buffer.write:
\*     self.buffer[:-blen] = self.buffer[blen:]
\*     self.buffer[-blen:] = block
buffer_write(b, blk) ==
    LET blen  == Len(blk)
        shift == SliceAssign(b, 0, -blen, PyFrom(b, blen))
    IN  IF shift.raised THEN shift
        ELSE SliceAssign(shift.array, -blen, Len(b), blk)

\* buffer.read: self.buffer[-size:]
buffer_read(b, size) == PyFrom(b, -size)

\* buffer.reset that leaves the array as it is.
buffer_reset_Keep(b) == b

\* buffer.reset: self.buffer[:] = 0
buffer_reset(b) == [i \in 1..Len(b) |-> <<0, 0>>]

\* Blocks handed to write: every length from 0 to one beyond the capacity.
Blocks ==
    UNION {[1..n -> SampleVals] : n \in 0..(BufferSize + 1)}

InitBuf ==
    /\ buffer = buffer_init(BufferSize)
    /\ buf_op = "init" /\ buf_prev = <<>> /\ buf_block = <<>> /\ buf_raised = FALSE
    /\ buf_size = 0 /\ buf_view = <<>>
    /\ IdleMask /\ IdleConn /\ IdleMon /\ IdleAux

Write(blk) ==
    /\ buffer' = buffer_write(buffer, blk).array
    /\ buf_raised' = buffer_write(buffer, blk).raised
    /\ buf_op' = "write" /\ buf_prev' = buffer /\ buf_block' = blk
    /\ buf_size' = 0 /\ buf_view' = <<>>
    /\ UNCHANGED <<vars_mask, vars_conn, vars_mon, vars_aux>>

Reset ==
    /\ buffer' = buffer_reset(buffer)
    /\ buf_op' = "reset" /\ buf_prev' = buffer /\ buf_block' = <<>>
    /\ buf_raised' = FALSE
    /\ buf_size' = 0 /\ buf_view' = <<>>
    /\ UNCHANGED <<vars_mask, vars_conn, vars_mon, vars_aux>>

\* Sizes handed to read: 0 to one beyond the capacity.
ReadSizes == 0..(BufferSize + 1)

\* buffer.read(size): returns a slice, the array is left alone.
BufRead(size) ==
    /\ buf_view' = buffer_read(buffer, size)
    /\ buf_size' = size
    /\ buf_op' = "read" /\ buf_prev' = buffer /\ buf_block' = <<>>
    /\ buf_raised' = FALSE
    /\ UNCHANGED <<buffer, vars_mask, vars_conn, vars_mon, vars_aux>>

NextBuf ==
    \/ \E blk \in Blocks : Write(blk)
    \/ Reset
    \/ \E size \in ReadSizes : BufRead(size)

SpecBuf == InitBuf /\ [][NextBuf]_vars

\* C9: for every block of length k with 1 <= k <= capacity (k = capacity
\* included), after write(block) the last k entries of read(capacity) are the
\* block in order and the first capacity-k entries are the previous entries
\* k..capacity-1; the oldest k entries are gone.
C9_WriteShiftsAndAppends ==
    (buf_op = "write" /\ Len(buf_block) >= 1 /\ Len(buf_block) <= BufferSize) =>
        LET k   == Len(buf_block)
            now == buffer_read(buffer, BufferSize)
        IN  /\ ~buf_raised
            /\ Len(now) = BufferSize
            /\ \A i \in 1..k : now[BufferSize - k + i] = buf_block[i]
            /\ \A i \in 1..(BufferSize - k) : now[i] = buf_prev[k + i]

\* A two-row block written over a buffer whose rows all differ.
C9_Witness ==
    /\ buf_op = "write" /\ Len(buf_block) = 2 /\ BufferSize > 2
    /\ buf_prev[1] # buf_prev[2] /\ buf_prev[2] # buf_prev[3]
    /\ buf_prev[BufferSize] # buf_block[1] /\ buf_block[1] # buf_block[2]

\* A block as long as the buffer replaces all of it.
C9_WitnessFull ==
    /\ buf_op = "write" /\ Len(buf_block) = BufferSize
    /\ buf_prev # buffer /\ buffer = buf_block

\* C10: in every reachable state the buffer holds exactly capacity two-axis
\* samples; it is all zero after construction and after reset(); no
\* operation (a write that raises included) changes its length.
C10_AlwaysFull ==
    /\ Len(buffer) = BufferSize
    /\ \A i \in 1..Len(buffer) : Len(buffer[i]) = 2
    /\ (buf_op \in {"init", "reset"} => buffer = Zeros(BufferSize))

\* reset() applied to a buffer holding data.
C10_Witness ==
    /\ buf_op = "reset"
    /\ \A i \in 1..Len(buf_prev) : buf_prev[i] # <<0, 0>>
    /\ buffer = Zeros(BufferSize)

\* C11: read(size), for every size with 0 <= size <= capacity, returns
\* exactly size samples, the most recent size entries of the buffer, oldest
\* first and newest last, and leaves the buffer as it was.
C11_ReadReturnsNewest ==
    (buf_op = "read" /\ buf_size >= 0 /\ buf_size <= BufferSize) =>
        /\ Len(buf_view) = buf_size
        /\ \A i \in 1..Len(buf_view) :
              buf_view[i] = buf_prev[BufferSize - buf_size + i]
        /\ buffer = buf_prev

\* For 1 <= size <= capacity the slice is the newest size rows; read(0) is
\* self.buffer[-0:], the whole array.
C11_ReadNonZero ==
    /\ (buf_op = "read" /\ buf_size >= 1 /\ buf_size <= BufferSize) =>
          /\ Len(buf_view) = buf_size
          /\ \A i \in 1..buf_size :
                buf_view[i] = buf_prev[BufferSize - buf_size + i]
          /\ buffer = buf_prev
    /\ (buf_op = "read" /\ buf_size = 0) =>
          (buf_view = buf_prev /\ buffer = buf_prev)

\* read(0) on a buffer that holds data.
C11_ReadZero ==
    /\ buf_op = "read" /\ buf_size = 0
    /\ Len(buf_view) = BufferSize /\ buf_view[BufferSize] # <<0, 0>>

\* C39: write with an empty block (length 0, which satisfies
\* len(block) <= capacity) succeeds and leaves the buffer contents unchanged.
C39_EmptyWriteSucceeds ==
    (buf_op = "write" /\ Len(buf_block) = 0) =>
        (~buf_raised /\ buffer = buf_prev)

\* With blen = 0 the first assignment is self.buffer[:0] = self.buffer[0:],
\* capacity rows into none: for a capacity above 1 it raises ValueError, and
\* the array is as it was.
C39_EmptyWriteRaises ==
    (buf_op = "write" /\ Len(buf_block) = 0) =>
        (buf_raised /\ buffer = buf_prev)

\* An empty block handed to a buffer that holds data.
C39_EmptyBlockWritten ==
    /\ buf_op = "write" /\ buf_block = <<>> /\ buf_raised
    /\ buffer[BufferSize] # <<0, 0>>

(***************************************************************************)
(* connection and subscription over a TCP byte stream                      *)
(***************************************************************************)

\* Largest chunk one socket recv hands over.
MaxChunk == 9

\* Calls of close() made on one subscription.
MaxCloses == 2

\* Number of payload bytes the server has ready to send.
MaxPayload == 33

\* Largest samples argument of subscription.read.
MaxSamples == 1

\* Number of read calls made on one subscription.
MaxReads == 2

\* recv's default block_size
RECV_BLOCK_SIZE == 65536

\* The i-th payload byte the server streams: all different for i < 256, and
\* both below and above 128.
PayloadByte(i) == (37 * i + 11) % 256

Payload == [i \in 1..MaxPayload |-> PayloadByte(i)]

\* "bad mask\n"
BadMaskLine == <<98, 97, 100, 32, 109, 97, 115, 107, 10>>

\* "Err\n": an error message as the server writes it, its first character
\* being the non-zero status byte
ErrLine == <<69, 114, 114, 10>>

\* The initial timestamps the server sends, as 4 bytes, little endian:
\* 0, 2^16 - 1 and 2^32 - 1.
InitialT0 == {<<0, 0, 0, 0>>, <<255, 255, 0, 0>>, <<255, 255, 255, 255>>}

\* The id lists subscribed to: one id, and two ids out of order with one
\* of them given twice.
ConnMasks == {<<5>>, <<7, 3, 7>>}

\* Decimation factors a server can be configured with.
DecimationChoices == {1, 10}

\* What the server sends in answer to the subscribe command: status 0, the
\* initial timestamp if it was asked for, and the payload; or a non-zero
\* status and the rest of an error message line.
ServerReplies(with_t0) ==
    {<<0>> \o (IF with_t0 THEN ts ELSE <<>>) \o Payload : ts \in InitialT0}
        \cup {<<1>> \o BadMaskLine, ErrLine}

Min(a, b) == IF a < b THEN a ELSE b

\* What one call of sock.recv(block_size) can do: hand over between 1 and
\* block_size of the bytes still to come, time out (select / poll finds
\* nothing in time), or return '' because the server has closed.  On a
\* socket that has been closed it raises socket.error.
RecvOutcomes(block_size) ==
    IF sock_closed THEN {[kind |-> "error", n |-> 0]}
    ELSE {[kind |-> "chunk", n |-> n] :
            n \in 1..Min(Min(block_size, MaxChunk), Len(stream) - rcvd)}
            \cup {[kind |-> "EOF", n |-> 0]}
            \cup (IF peer_closed THEN {} ELSE {[kind |-> "timeout", n |-> 0]})

Chunk(out) == SubSeq(stream, rcvd + 1, rcvd + out.n)

\* The socket after the call: an EOF before the last byte means the server
\* closed having sent no more than what was received.
SockAfter(out) ==
    /\ rcvd' = rcvd + out.n
    /\ peer_closed' = (peer_closed \/ out.kind = "EOF")
    /\ stream' = IF out.kind = "EOF" THEN SubSeq(stream, 1, rcvd) ELSE stream

\* (t0 + n) & 0xffffffff on 16 bit halves, for 0 <= n < 2^16
U32Add(t, n) ==
    [lo |-> (t.lo + n) % 65536,
     hi |-> (t.hi + ((t.lo + n) \div 65536)) % 65536]

\* struct.unpack('<I', b)[0]
UnpackU32(b) ==
    [lo |-> b[1] + 256 * b[2], hi |-> b[3] + 256 * b[4]]

\* one int32 of numpy.frombuffer(raw, dtype = numpy.int32): 4 bytes, little
\* endian, two's complement
Int32LE(b) ==
    b[1] + 256 * b[2] + 65536 * b[3]
        + 16777216 * (IF b[4] >= 128 THEN b[4] - 256 ELSE b[4])

\* frombuffer wants a whole number of int32, reshape as many of them as the
\* shape holds; either raises ValueError otherwise.
ShapeFits(raw, samples, cnt) ==
    /\ Len(raw) % 4 = 0
    /\ Len(raw) \div 4 = samples * cnt * 2

\* numpy.frombuffer(raw, int32).reshape((samples, cnt, 2))
ToArray(raw, samples, cnt) ==
    [i \in 1..samples |-> [j \in 1..cnt |-> [a \in 1..2 |->
        LET k == ((i - 1) * cnt + (j - 1)) * 2 + (a - 1)
        IN  Int32LE(SubSeq(raw, 4 * k + 1, 4 * k + 4))]]]

\* An entry of numpy.empty that has not been written.
Unwritten == 0 - 1

\* numpy.empty(length, dtype = numpy.int8)
Empty(length) == [i \in 1..length |-> Unwritten]

\* result.data[start:stop] = src
SetBytes(result, start, stop, src) ==
    [i \in 1..Len(result) |->
        IF i > start /\ i <= stop /\ i - start <= Len(src)
        THEN src[i - start] ELSE result[i]]

\* read_block's loop body with the excess of the last chunk dropped.
read_block_loop_DropExcess(length, rx, b, result) ==
    LET l == Len(b)
    IN  IF l = 0
        THEN [done |-> FALSE, rx |-> rx, buf |-> b, result |-> result]
        ELSE IF rx + l <= length
        THEN [done |-> rx + l >= length, rx |-> rx + l, buf |-> <<>>,
              result |-> SetBytes(result, rx, rx + l, b)]
        ELSE [done |-> rx + l >= length, rx |-> rx + l, buf |-> <<>>,
              result |-> SetBytes(result, rx, length, PyUpTo(b, length - rx))]

\* One pass of read_block's loop, from "l = len(buf)" to the break or to the
\* call of self.recv(): done tells which.
read_block_loop(length, rx, b, result) ==
    LET l == Len(b)
    IN  IF l = 0
        THEN [done |-> FALSE, rx |-> rx, buf |-> b, result |-> result]
        ELSE IF rx + l <= length
        THEN [done |-> rx + l >= length, rx |-> rx + l, buf |-> <<>>,
              result |-> SetBytes(result, rx, rx + l, b)]
        ELSE [done |-> rx + l >= length, rx |-> rx + l,
              buf |-> PyFrom(b, length - rx),
              result |-> SetBytes(result, rx, length, PyUpTo(b, length - rx))]

\* The byte length with one axis forgotten.
read_length_OneAxis(samples, cnt) == 4 * samples * cnt

\* subscription.read: the length handed to read_block
read_length(samples, cnt) == 8 * samples * cnt

\* The error text with the status byte left out.
error_text_NoStatus(c, chunk) == PyUpTo(chunk, -1)

\* subscription.__init__: (c + self.recv())[:-1]
error_text(c, chunk) == PyUpTo(<<c>> \o chunk, -1)

\* The addition without "& 0xffffffff": the carry out of bit 31 is kept.
advance_t0_NoWrap(t, samples) ==
    [lo |-> (t.lo + samples) % 65536,
     hi |-> t.hi + ((t.lo + samples) \div 65536)]

\* subscription.read of falib.py: (self.t0 + samples) & 0xffffffff
advance_t0(t, samples) == U32Add(t, samples)

InitConn ==
    /\ variant \in {"hex", "ranges"}
    /\ want_t0 \in (IF variant = "hex" THEN BOOLEAN ELSE {FALSE})
    /\ mask \in ConnMasks
    /\ fm_op = "none" /\ fm_count = 0 /\ fm_text = <<>>
    /\ stream \in ServerReplies(want_t0)
    /\ rcvd = 0 /\ peer_closed = FALSE
    /\ NoCall
    /\ IdleBuf /\ IdleMon /\ IdleAux

\* subscription.__init__ up to its first receive: connect, encode the mask,
\* send the subscribe command, call self.recv(1).
Subscribe ==
    /\ sub_state = "created"
    /\ count' = IF variant = "hex" THEN count_mask(normalise_mask(mask))
                ELSE format_mask(mask).count
    /\ sub_state' = "status"
    /\ UNCHANGED <<vars_aux, vars_mon, vars_mask, vars_buf, vars_close, variant, want_t0, vars_sock,
                   hs_c, hs_len, t0, err_text, raised, buf, pc, vars_read>>

\* c = self.recv(1) returns or raises; "if c != chr(0)" and "if t0" follow.
HsStatus(out) ==
    /\ sub_state = "status"
    /\ SockAfter(out)
    /\ IF out.kind = "chunk"
       THEN /\ hs_c' = Chunk(out)[1]
            /\ hs_len' = hs_len + out.n
            /\ sub_state' = IF Chunk(out)[1] # 0 THEN "errmsg"
                            ELSE IF variant = "hex" /\ want_t0 THEN "t0"
                            ELSE "streaming"
            /\ raised' = "none"
       ELSE /\ sub_state' = "failed"
            /\ raised' = out.kind
            /\ UNCHANGED <<hs_c, hs_len>>
    /\ UNCHANGED <<vars_aux, vars_mon, vars_mask, vars_buf, vars_close, variant, want_t0, count, t0,
                   err_text, buf, pc, vars_read>>

\* raise self.Error((c + self.recv())[:-1]), or the exception of self.recv()
HsErrMsg(out) ==
    /\ sub_state = "errmsg"
    /\ SockAfter(out)
    /\ sub_state' = "failed"
    /\ IF out.kind = "chunk"
       THEN /\ raised' = "Error"
            /\ err_text' = error_text(hs_c, Chunk(out))
            /\ hs_len' = hs_len + out.n
       ELSE /\ raised' = out.kind
            /\ UNCHANGED <<err_text, hs_len>>
    /\ UNCHANGED <<vars_aux, vars_mon, vars_mask, vars_buf, vars_close, variant, want_t0, hs_c, count,
                   t0, buf, pc, vars_read>>

\* self.t0 = struct.unpack('<I', self.recv(4))[0]: unpack raises struct.error
\* unless it is handed exactly 4 bytes
HsT0(out) ==
    /\ sub_state = "t0"
    /\ SockAfter(out)
    /\ IF out.kind = "chunk"
       THEN /\ hs_len' = hs_len + out.n
            /\ IF out.n = 4
               THEN /\ t0' = UnpackU32(Chunk(out))
                    /\ sub_state' = "streaming"
                    /\ raised' = "none"
               ELSE /\ sub_state' = "failed"
                    /\ raised' = "struct"
                    /\ UNCHANGED t0
       ELSE /\ sub_state' = "failed"
            /\ raised' = out.kind
            /\ UNCHANGED <<hs_len, t0>>
    /\ UNCHANGED <<vars_aux, vars_mon, vars_mask, vars_buf, vars_close, variant, want_t0, hs_c, count,
                   err_text, buf, pc, vars_read>>

\* read_block after one pass of its loop: either it is suspended in
\* self.recv(), or it stores the leftover in self.buf and returns, and
\* subscription.read turns the bytes into the array.
AfterLoop(step, samples) ==
    /\ rb_rx' = step.rx
    /\ rb_result' = step.result
    /\ IF step.done
       THEN /\ pc' = "idle"
            /\ buf' = step.buf
            /\ returned' = returned \o step.result
            /\ IF ShapeFits(step.result, samples, count)
               THEN /\ block' = ToArray(step.result, samples, count)
                    /\ samples_done' = samples_done + samples
                    /\ raised' = "none"
               ELSE /\ raised' = "ValueError"
                    /\ UNCHANGED <<block, samples_done>>
       ELSE /\ pc' = "recv"
            /\ raised' = "none"
            /\ UNCHANGED <<buf, block, returned, samples_done>>

\* subscription.read(samples) up to its return or to the first self.recv()
Read(samples) ==
    /\ sub_state = "streaming" /\ pc = "idle"
    /\ nreads < MaxReads
    /\ nreads' = nreads + 1
    /\ rd_samples' = samples
    /\ rd_t0_before' = t0
    /\ rd_pos' = Len(returned)
    /\ t0' = IF variant = "hex" THEN advance_t0(t0, samples) ELSE t0
    /\ rb_length' = read_length(samples, count)
    /\ AfterLoop(read_block_loop(read_length(samples, count), 0, buf,
                                 Empty(read_length(samples, count))), samples)
    /\ UNCHANGED <<vars_aux, vars_mon, vars_mask, vars_buf, vars_close, variant, want_t0, vars_sock,
                   sub_state, hs_c, hs_len, count, err_text, nfailed>>

\* A read that hands back the bytes it has when the receive fails.
recv_raises_Partial(out) ==
    /\ pc' = "idle"
    /\ raised' = "none"
    /\ returned' = returned \o SubSeq(rb_result, 1, Min(rb_rx, rb_length))
    /\ UNCHANGED <<nfailed, buf, block, samples_done, rb_rx, rb_result>>

\* self.recv() raises inside read_block: socket.timeout when nothing came in
\* time, EOF when sock.recv returned ''.  Nothing catches it in read_block
\* or in subscription.read, so the call ends there: result is dropped with
\* the frame and self.buf is not stored.
recv_raises(out) ==
    /\ pc' = "idle"
    /\ raised' = out.kind
    /\ nfailed' = nfailed + 1
    /\ UNCHANGED <<buf, block, returned, samples_done, rb_rx, rb_result>>

\* buf = self.recv() inside read_block returns a chunk, and the loop goes
\* round; or it raises, and read_block is left without storing self.buf.
ReadRecv(out) ==
    /\ pc = "recv"
    /\ SockAfter(out)
    /\ IF out.kind = "chunk"
       THEN /\ AfterLoop(read_block_loop(rb_length, rb_rx, Chunk(out), rb_result),
                         rd_samples)
            /\ UNCHANGED nfailed
       ELSE recv_raises(out)
    /\ UNCHANGED <<vars_aux, vars_mon, vars_mask, vars_buf, vars_close, variant, want_t0, sub_state,
                   hs_c, hs_len, count, t0, err_text, rb_length, rd_samples,
                   rd_t0_before, rd_pos, nreads>>

\* connection.close: self.sock.close(); closing a closed socket does nothing.
Close ==
    /\ sub_state = "streaming" /\ pc = "idle"
    /\ close0.n < MaxCloses
    /\ sock_closed' = TRUE
    /\ close0' = IF close0.n = 0
                 THEN [n |-> 1, nreads |-> nreads, pos |-> Len(returned)]
                 ELSE [close0 EXCEPT !.n = @ + 1]
    /\ UNCHANGED <<vars_aux, vars_mon, vars_mask, vars_buf, variant, want_t0, vars_sock,
                   sub_state, hs_c, hs_len, count, t0, err_text, raised, buf,
                   pc, vars_read>>

NextConn ==
    \/ Subscribe
    \/ Close
    \/ \E out \in RecvOutcomes(1) : HsStatus(out)
    \/ \E out \in RecvOutcomes(RECV_BLOCK_SIZE) : HsErrMsg(out)
    \/ \E out \in RecvOutcomes(4) : HsT0(out)
    \/ \E samples \in 0..MaxSamples : Read(samples)
    \/ \E out \in RecvOutcomes(RECV_BLOCK_SIZE) : ReadRecv(out)

SpecConn == InitConn /\ [][NextConn]_vars

(***************************************************************************)
(* Properties of read_block and subscription.read                          *)
(***************************************************************************)

\* The payload: what the server sends after the bytes the constructor reads.
PayloadFrom(first, n) == SubSeq(stream, hs_len + first, hs_len + first + n - 1)

\* C1: when the socket delivers the stream in chunks of any size (no receive
\* having timed out or met EOF on this connection), read_block(n) returns
\* exactly the first n bytes not yet returned, in order; the next call goes on
\* from the byte after them, the excess of the last chunk being kept in the
\* leftover buffer.
C1_ReadBlockExact ==
    (sub_state = "streaming" /\ nfailed = 0) =>
        /\ returned = PayloadFrom(1, Len(returned))
        /\ (pc = "idle" /\ nreads > 0) =>
              /\ Len(returned) = rd_pos + rb_length
              /\ rb_result = PayloadFrom(rd_pos + 1, rb_length)
              /\ buf = SubSeq(stream, hs_len + Len(returned) + 1, rcvd)

\* A second block returned after a first, the last chunk of each reaching
\* beyond the block's end.
C1_Witness ==
    /\ sub_state = "streaming" /\ nfailed = 0 /\ pc = "idle"
    /\ nreads = 2 /\ rd_pos > 0 /\ rb_length > 0 /\ rb_rx > rb_length
    /\ buf # <<>> /\ Len(buf) = rb_rx - rb_length

\* C2: across any sequence of read_block calls, those ending in a timeout or
\* EOF included, every byte received from the socket is either in a returned
\* block or in the leftover buffer, once and in stream order.
C2_NoByteLost ==
    (sub_state = "streaming" /\ pc = "idle") =>
        returned \o buf = SubSeq(stream, hs_len + 1, rcvd)

\* C3: subscription.read(samples) consumes exactly 8 * samples * count bytes
\* and returns an array of shape [samples, count, 2]; consecutive reads cut
\* the payload into consecutive frames without gap or overlap, in arrival
\* order, whatever the sample counts asked for.
C3_ReadFrames ==
    (sub_state = "streaming" /\ nfailed = 0 /\ pc = "idle" /\ nreads > 0) =>
        /\ raised = "none"
        /\ count = Cardinality(SetOf(mask))
        /\ rd_pos + 8 * rd_samples * count = 8 * samples_done * count
        /\ Len(returned) = 8 * samples_done * count
        /\ rcvd = hs_len + Len(returned) + Len(buf)
        /\ Len(block) = rd_samples
        /\ \A i \in 1..Len(block) :
              /\ Len(block[i]) = count
              /\ \A j \in 1..Len(block[i]) :
                    /\ Len(block[i][j]) = 2
                    /\ \A a \in 1..2 :
                          block[i][j][a] = Int32LE(PayloadFrom(
                              rd_pos + 8 * ((i - 1) * count + (j - 1)) + 4 * (a - 1) + 1, 4))

\* A second read on two channels, after a first read that returned samples.
C3_Witness ==
    /\ sub_state = "streaming" /\ nfailed = 0 /\ pc = "idle"
    /\ nreads = 2 /\ count = 2 /\ rd_pos > 0 /\ rd_samples = 1
    /\ Len(block) = 1 /\ block[1][2][2] < 0

\* The change of t0 made by the last read, taken modulo 2^32, is d.
T0AdvancedBy(d) ==
    ((t0.hi - rd_t0_before.hi) % 65536) * 65536 + (t0.lo - rd_t0_before.lo) = d

C5_HandshakeDecoding ==
    /\ (sub_state = "streaming" => hs_c = 0)
    /\ (hs_len >= 1 /\ hs_c = 0 /\ ~want_t0) => sub_state = "streaming"
    /\ (hs_len >= 1 /\ hs_c # 0) => sub_state \in {"errmsg", "failed"}
    /\ (sub_state = "failed" /\ raised = "Error") =>
           err_text = SubSeq(stream, 1, Len(stream) - 1)

\* "bad mask"
BadMaskText == SubSeq(BadMaskLine, 1, Len(BadMaskLine) - 1)

\* C6 as claimed: when the handshake returns 0x01 followed by "bad mask\n"
\* (all of it received), the constructor fails with an error whose message is
\* exactly "bad mask".
C6_MessageIsBadMask ==
    (stream = <<1>> \o BadMaskLine /\ rcvd = Len(stream)
        /\ sub_state = "failed" /\ raised = "Error") =>
            err_text = BadMaskText

\* C6 amended: status 0x01 followed by "bad mask\n" makes the constructor
\* fail; the message of its Error starts with the status byte 0x01, which
\* the bytes of the next receive, less the last of them, follow: it is
\* "\x01bad mask" when the line arrives in one piece and never "bad mask".
C6_MessageKeepsStatusByte ==
    (stream = <<1>> \o BadMaskLine) =>
        /\ sub_state # "streaming"
        /\ (raised = "Error") =>
              /\ sub_state = "failed"
              /\ err_text = SubSeq(<<1>> \o BadMaskLine, 1, rcvd - 1)
              /\ (rcvd = Len(stream) => err_text = <<1>> \o BadMaskText)
              /\ err_text # BadMaskText

\* The whole line received at once.
C6_Witness ==
    /\ stream = <<1>> \o BadMaskLine
    /\ sub_state = "failed" /\ raised = "Error"
    /\ err_text = <<1>> \o BadMaskText

(***************************************************************************)
(* Properties of close                                                     *)
(***************************************************************************)

\* C20: close() is idempotent (a second close neither fails nor changes
\* state), and every read called after close fails with an error and
\* returns no data, regardless of what is in the leftover buffer.
C20_ReadAfterCloseFails ==
    /\ (close0.n >= 1) => sock_closed
    /\ (sock_closed /\ pc = "idle" /\ nreads > close0.nreads) =>
          /\ raised # "none"
          /\ nfailed > 0
          /\ Len(returned) = close0.pos

\* A second close leaves the subscription closed and changes nothing else;
\* a read after close raises socket.error as soon as it needs the socket,
\* and returns data when the leftover buffer holds all it asks for.
C20_CloseThenReadLeftover ==
    /\ (close0.n >= 1) => (sock_closed /\ sub_state = "streaming")
    /\ (sock_closed /\ pc = "idle" /\ nreads > close0.nreads /\ raised = "none") =>
          /\ rb_rx >= rb_length
          /\ Len(returned) - rd_pos = rb_length
    /\ (sock_closed /\ pc = "idle" /\ raised = "error") =>
          Len(returned) = rd_pos

\* A read made after close() has returned a whole frame from the leftover.
C20_LeftoverRead ==
    /\ sock_closed /\ pc = "idle" /\ nreads > close0.nreads
    /\ raised = "none" /\ rd_samples = 1 /\ Len(returned) = close0.pos + 8
    /\ close0.n = 2

(***************************************************************************)
(* Failures of a receive inside read_block                                 *)
(***************************************************************************)

\* C21: a receive inside read_block that brings no data ends the call: with
\* EOF when the peer has closed, with a timeout when nothing arrived in
\* time.  The call hands back no bytes, leaves the last block and self.buf
\* as they were, and makes no further receive.
C21_ReadBlockFails ==
    [][(pc = "recv" /\ ~sock_closed /\ rcvd' = rcvd) =>
          /\ pc' = "idle"
          /\ raised' = (IF peer_closed' THEN "EOF" ELSE "timeout")
          /\ nfailed' = nfailed + 1
          /\ returned' = returned /\ block' = block /\ buf' = buf
          /\ samples_done' = samples_done]_vars

\* The peer closed when a part of the block had been received.
C21_Witness ==
    /\ pc = "idle" /\ raised = "EOF" /\ nfailed = 1
    /\ rb_rx > 0 /\ rb_rx < rb_length
    /\ Len(returned) = rd_pos

(***************************************************************************)
(* The end of a failed handshake, and the initial timestamp                *)
(***************************************************************************)

\* C27: a handshake that fails on a non-zero status byte leaves the
\* subscription closed, its connection released before the error is
\* raised, and no read is ever made on it.
C27_FailureReleases ==
    (sub_state = "failed" /\ raised = "Error") =>
        /\ sock_closed
        /\ nreads = 0 /\ pc = "idle" /\ returned = <<>>

\* What the constructor does do: it raises out of __init__, so no object
\* is handed to the caller and no read is made, and the socket is left as
\* it was.
C27_FailureLeavesSocket ==
    (sub_state = "failed") =>
        /\ ~sock_closed /\ close0.n = 0
        /\ nreads = 0 /\ pc = "idle" /\ returned = <<>>

\* The constructor has raised Error with the socket still open.
C27_FailedOpen ==
    /\ sub_state = "failed" /\ raised = "Error" /\ hs_c # 0
    /\ ~sock_closed

\* C28: with timestamps asked for and status 0, the 4 bytes after the
\* status byte are consumed and decoded as the initial t0, however the
\* server's bytes are split into chunks, and the frames start right after
\* them; without timestamps nothing more is consumed and t0 is 0.
C28_T0Handshake ==
    /\ (variant = "hex" /\ want_t0 /\ hs_len >= 1 /\ hs_c = 0
            /\ sub_state = "failed") => raised \in {"EOF", "timeout"}
    /\ (variant = "hex" /\ sub_state = "streaming") =>
          IF want_t0
          THEN /\ hs_len = 5
               /\ nreads = 0 => t0 = UnpackU32(SubSeq(stream, 2, 5))
          ELSE /\ hs_len = 1
               /\ nreads = 0 => t0 = [lo |-> 0, hi |-> 0]

\* What holds of the code: the timestamp is decoded only when one receive
\* hands over all 4 bytes, and a shorter chunk ends the constructor with
\* struct.error.
C28_T0InOneChunk ==
    /\ (variant = "hex" /\ want_t0 /\ hs_len >= 1 /\ hs_c = 0
            /\ sub_state = "failed") =>
          \/ raised \in {"EOF", "timeout"}
          \/ raised = "struct" /\ hs_len \in 2..4
    /\ (variant = "hex" /\ sub_state = "streaming") =>
          IF want_t0
          THEN /\ hs_len = 5
               /\ nreads = 0 => t0 = UnpackU32(SubSeq(stream, 2, 5))
          ELSE /\ hs_len = 1
               /\ nreads = 0 => t0 = [lo |-> 0, hi |-> 0]

\* The server's 4 timestamp bytes came in two chunks.
C28_SplitT0 ==
    /\ variant = "hex" /\ want_t0 /\ sub_state = "failed"
    /\ raised = "struct" /\ hs_len = 3 /\ ~peer_closed

(***************************************************************************)
(* Failed reads, empty reads and split error messages                      *)
(***************************************************************************)

\* C36: a subscription read that fails (EOF or timeout before all bytes
\* arrive) leaves the timestamp t0 unchanged: t0 advances only for reads
\* that return a block.
C36_FailedReadKeepsT0 ==
    (variant = "hex" /\ sub_state = "streaming" /\ pc = "idle" /\ nreads > 0
        /\ raised \in {"EOF", "timeout"}) =>
            t0 = rd_t0_before

\* read adds samples to self.t0 before it calls read_block: whether the call
\* returns a block, raises, or is still waiting, t0 has moved on by the
\* number of samples asked for.
C36_T0CountsRequests ==
    (variant = "hex" /\ sub_state = "streaming" /\ nreads > 0) =>
        T0AdvancedBy(rd_samples)

\* A read of one sample that ended in a timeout, t0 one further on.
C36_FailedReadAdvanced ==
    /\ variant = "hex" /\ pc = "idle" /\ nreads = 1 /\ rd_samples = 1
    /\ raised = "timeout" /\ returned = <<>> /\ T0AdvancedBy(1)

\* C37: a zero-length request read_block(0) (a read of 0 samples) returns an
\* empty block immediately, without performing any socket receive and
\* without being able to fail with EOF or timeout.
C37_ZeroReadImmediate ==
    (sub_state = "streaming" /\ nreads > 0 /\ rd_samples = 0) =>
        (pc = "idle" /\ raised = "none")

\* The test "rx >= length" is made only after a non-empty buffer has been
\* used: read_block(0) returns at once when there is a leftover, and calls
\* self.recv() when there is none.
C37_ZeroReadNeedsLeftover ==
    [][(nreads' = nreads + 1 /\ rd_samples' = 0) =>
          /\ rb_length' = 0 /\ rcvd' = rcvd /\ returned' = returned
          /\ buf' = buf
          /\ IF buf # <<>>
             THEN pc' = "idle" /\ raised' = "none" /\ block' = <<>>
             ELSE pc' = "recv"]_vars

\* read(0) on an empty leftover met the end of the stream.
C37_ZeroReadFailed ==
    /\ sub_state = "streaming" /\ pc = "idle" /\ rd_samples = 0
    /\ rb_length = 0 /\ raised = "EOF" /\ nfailed = 1

RECURSIVE IsInfixFrom(_, _, _)
IsInfixFrom(part, whole, k) ==
    IF k + Len(part) > Len(whole) THEN FALSE
    ELSE IF SubSeq(whole, k + 1, k + Len(part)) = part THEN TRUE
    ELSE IsInfixFrom(part, whole, k + 1)

\* part occurs in whole as a run of consecutive entries
IsInfix(part, whole) == IsInfixFrom(part, whole, 0)

\* The server's message: what follows the status byte, up to the newline.
ServerMessage == SubSeq(stream, 2, Len(stream) - 1)

\* C38: when the handshake status byte is non-zero, the error text reported
\* by the subscription constructor contains the server's complete message up
\* to but not including its terminating newline, however the message bytes
\* are split across received chunks.
C38_CompleteMessage ==
    (sub_state = "failed" /\ raised = "Error") =>
        IsInfix(ServerMessage, err_text)

\* The text is made from the status byte and ONE further chunk, less that
\* chunk's last byte, whether or not that byte is the newline.
C38_FirstChunkOnly ==
    (sub_state = "failed" /\ raised = "Error") =>
        /\ hs_len = rcvd
        /\ err_text = SubSeq(stream, 1, rcvd - 1)

\* "bad mask\n" arrived in two chunks; the text stops short of the first
\* chunk's last byte.
C38_SplitMessage ==
    /\ sub_state = "failed" /\ raised = "Error"
    /\ stream = <<1>> \o BadMaskLine
    /\ rcvd = 5 /\ err_text = <<1, 98, 97, 100>>

(***************************************************************************)
(* The viewer's stream monitor (viewer/buffer.py, class monitor)           *)
(*                                                                         *)
(* cothread tasks are cooperative: the controlling flow and the task       *)
(* spawned by start() change hands only where one of them suspends, in     *)
(* server.subscription(...), in subscription.read(...) and in task.Wait(). *)
(* Each action below runs one of them from one suspension to the next.     *)
(***************************************************************************)

\* read_size handed to the constructor.
MonReadSize == 2

\* Subscriptions the monitor may try to create, reads that may complete and
\* calls the controlling flow may make.
MaxAttempts == 2
MaxMonReads == 3
MaxCalls == 3

\* Sizes handed to resize; the viewer passes 1 <= update_size <= notify_size
\* <= buffer_size, the constructor takes any pair.
UpdateSizes == {1, MonReadSize}
NotifySizes == {1, BufferSize}

\* str() of what server.subscription(...) and subscription.read(...) raise.
ConnectErrors == {"[Errno 111] Connection refused"}
ReadErrors == {"Connection closed by server", "timed out"}

\* Values of a keyword argument of set_channel: None, or a value, the
\* values 0 and False among them.
IdArgs ==
    {[given |-> FALSE, val |-> 0], [given |-> TRUE, val |-> 0],
     [given |-> TRUE, val |-> 1]}
DecimatedArgs ==
    {[given |-> FALSE, val |-> FALSE], [given |-> TRUE, val |-> FALSE],
     [given |-> TRUE, val |-> TRUE]}

\* The callbacks, as seen by the application.
on_connect_Skip(c) == c

\* An entry of the record of calls the application keeps.
Called(ev, text) == [ev |-> ev, text |-> text]

on_connect(c) ==
    [c EXCEPT !.n_connect = @ + 1,
              !.trace = Append(@, Called("connect", <<>>))]

on_event(c, value) ==
    [c EXCEPT !.n_data = @ + 1, !.last_data = value,
              !.trace = Append(@, Called("data", <<>>))]

on_eof(c, message) ==
    [c EXCEPT !.n_eof = @ + 1, !.eof_text = message,
              !.trace = Append(@, Called("eof", message))]

\* 1e-3 * v, kept as the fraction v / 1000.
Milli(v) == [num |-> v, den |-> 1000]

\* monitor.read that hands over the oldest rows instead of the newest.
monitor_read_Oldest(b, size) ==
    LET view == PyUpTo(b, size)
    IN  [i \in 1..Len(view) |-> <<Milli(view[i][1]), Milli(view[i][2])>>]

\* monitor.read: 1e-3 * self.buffer.read(self.notify_size), a new array.
monitor_read(b, size) ==
    LET view == buffer_read(b, size)
    IN  [i \in 1..Len(view) |-> <<Milli(view[i][1]), Milli(view[i][2])>>]

\* Row j of the stream of the n-th subscription, [:, 0, :] of what read returns.
StreamRow(n, j) == <<n, j>>

\* subscription.read(samples)[:, 0, :] on a subscription that has delivered pos rows.
ReadBlock(n, pos, samples) == [i \in 1..samples |-> StreamRow(n, pos + i)]

\* The except branch of start() that reports nothing.
start_except_Silent(c, message) == c

\* The except branch of start():
\*     self.on_eof('Unable to connect to server: %s' % message)
start_except(c, message) ==
    on_eof(c, <<"Unable to connect to server: ", message>>)

\* The except branch of the loop that leaves running set.
loop_except_KeepRunning(exception) ==
    [stop_reason |-> exception, running |-> TRUE]

\* The except branch of the loop: stop_reason = str(exception); self.running = False
loop_except(exception) ==
    [stop_reason |-> exception, running |-> FALSE]

\* A loop that goes on whatever self.running is.
while_running_Always(r) == TRUE

\* while self.running:
while_running(r) == r

\* set_channel that tests the argument's truth, "if arg:", so that 0 and
\* False are taken as not given.
set_field_Truthy(old, arg) ==
    IF arg.given /\ ToString(arg.val) \notin {"0", "FALSE"} THEN arg.val ELSE old

\* set_channel that stores the argument even when it is None.
set_field_Always(old, arg) == arg.val

\* if arg is not None: self.field = arg
set_field(old, arg) == IF arg.given THEN arg.val ELSE old

\* resize that stores the two sizes the other way round.
resize_Swapped(n, u) ==
    [notify_size |-> u, update_size |-> n, data_ready |-> 0]

\* resize(notify_size, update_size)
resize(n, u) ==
    [notify_size |-> n, update_size |-> u, data_ready |-> 0]

\* The monitor on entry of a call.
Snapshot ==
    [cb |-> cb, attempts |-> attempts, reads |-> reads_issued, task |-> task,
     samples |-> task_samples, running |-> running, buffer |-> mon_buffer,
     subscription |-> subscription, nsubs |-> Len(subs), id |-> id,
     decimated |-> decimated]

InitMon ==
    /\ update_size = MonReadSize /\ notify_size = MonReadSize
    /\ mon_buffer = buffer_init(BufferSize)
    /\ MonitorCreated
    /\ IdleMask /\ IdleBuf /\ IdleConn /\ IdleAux

vars_cfg  == <<id, decimated>>
vars_size == <<update_size, notify_size, data_ready>>
vars_task == <<task, task_samples, task_notify, reads_issued>>
vars_rest == <<vars_mask, vars_buf, vars_conn, vars_aux>>

\* Outcomes of server.subscription(...): an object, or an exception.
HandshakeOutcomes ==
    {[ok |-> TRUE, text |-> ""]} \cup [ok : {FALSE}, text : ConnectErrors]

\* A task that ends without a word.
task_end_Silent(c, stop_reason) == c

\* The end of __monitor: self.on_eof(stop_reason)
task_end(c, stop_reason) == on_eof(c, <<stop_reason>>)

\* The loop test of __monitor, then either the next subscription.read, in
\* which the task suspends, or the end of the task:
\*     self.subscription.close(); self.on_eof(stop_reason)
\* run is self.running, c the callbacks made so far, ss the subscriptions.
LoopTest(run, c, stop_reason, ss) ==
    /\ running' = run
    /\ IF while_running(run)
       THEN /\ task' = "read"
            /\ task_samples' = update_size /\ task_notify' = notify_size
            /\ reads_issued' = reads_issued + 1
            /\ subs' = ss
            /\ cb' = c
       ELSE /\ task' = "done"
            /\ subs' = [ss EXCEPT ![subscription].open = FALSE]
            /\ cb' = task_end(c, stop_reason)
            /\ UNCHANGED <<task_samples, task_notify, reads_issued>>

\* Record of the read cycle that completes now: the read in flight, the
\* sizes in force, and the callbacks, calls and subscriptions made before it.
Cycle(kind, rows, text) ==
    [kind |-> kind, run |-> subscription, read_no |-> reads_issued,
     samples |-> task_samples, block |-> rows, notify0 |-> task_notify,
     notify |-> notify_size, update |-> update_size, text |-> text,
     n_data |-> cb.n_data, ncalls |-> ncalls, ctl |-> ctl_pc,
     attempts |-> attempts]

\* __monitor from its entry to its first suspension.
Monitor ==
    /\ task = "spawned"
    /\ LoopTest(running, on_connect(cb), "Stopped", subs)
    /\ UNCHANGED <<vars_cfg, vars_size, mon_buffer, subscription, ctl_pc,
                   ctl_call, ctl_running, ctl_args, ctl_last, run0, call0,
                   last_cycle, attempts, ncalls, vars_rest>>

\* subscription.read returns: the else branch of the loop, then the loop test.
\* A write that raises ValueError ends the task with that exception.
MonitorReadOk ==
    /\ task = "read" /\ reads_issued <= MaxMonReads
    /\ LET rows  == ReadBlock(subscription, subs[subscription].pos, task_samples)
           ss    == [subs EXCEPT ![subscription].pos = @ + task_samples]
           w     == buffer_write(mon_buffer, rows)
       IN  /\ mon_buffer' = w.array
           /\ IF w.raised
              THEN /\ task' = "died"
                   /\ subs' = ss
                   /\ UNCHANGED <<running, cb, data_ready, last_cycle,
                                  task_samples, task_notify, reads_issued>>
              ELSE /\ data_ready' = (data_ready + update_size) - update_size
                   /\ last_cycle' =
                        Cycle("ok", rows, "")
                   /\ LoopTest(running,
                               on_event(cb, monitor_read(w.array, notify_size)),
                               "Stopped", ss)
    /\ UNCHANGED <<vars_cfg, update_size, notify_size, subscription, ctl_pc,
                   ctl_call, ctl_running, ctl_args, ctl_last, run0, call0,
                   attempts, ncalls, vars_rest>>

\* subscription.read raises: the except branch of the loop, then the loop test.
MonitorReadFail(exception) ==
    /\ task = "read" /\ reads_issued <= MaxMonReads + MaxAttempts + 1
    /\ last_cycle' =
         Cycle("failed", <<>>, exception)
    /\ LoopTest(loop_except(exception).running, cb,
                loop_except(exception).stop_reason, subs)
    /\ UNCHANGED <<vars_cfg, vars_size, mon_buffer, subscription, ctl_pc,
                   ctl_call, ctl_running, ctl_args, ctl_last, run0, call0,
                   attempts, ncalls, vars_rest>>

\* Entry of a call made by the controlling flow.
Enter(call, args) ==
    /\ ctl_pc = "idle" /\ ncalls < MaxCalls
    /\ ncalls' = ncalls + 1
    /\ call0' = Snapshot
    /\ ctl_call' = call
    /\ ctl_args' = args

\* start() up to server.subscription(...); the assert ends the call.
Start ==
    /\ Enter("start", NoArgs)
    /\ IF running
       THEN ctl_pc' = "idle" /\ ctl_last' = "AssertionError"
       ELSE ctl_pc' = "handshake" /\ ctl_last' = ""
    /\ UNCHANGED <<running, vars_cfg, vars_size, vars_task, mon_buffer, subs,
                   subscription, ctl_running, cb, run0, last_cycle, attempts,
                   vars_rest>>

\* server.subscription(...) returns or raises: the rest of start().
StartHandshake(out) ==
    /\ ctl_pc = "handshake" /\ (out.ok => attempts < MaxAttempts)
    /\ attempts' = attempts + 1
    /\ ctl_pc' = "idle"
    /\ IF out.ok
       THEN /\ subs' = Append(subs, [mask |-> <<id>>, decimated |-> decimated,
                                     uncork |-> decimated, open |-> TRUE,
                                     pos |-> 0])
            /\ subscription' = Len(subs) + 1
            /\ running' = TRUE
            /\ mon_buffer' = buffer_reset(mon_buffer)
            /\ task' = "spawned"
            /\ run0' = cb
            /\ ctl_last' = "started"
            /\ UNCHANGED <<cb, task_samples, task_notify, reads_issued>>
       ELSE /\ cb' = start_except(cb, out.text)
            /\ ctl_last' = "connect_failed"
            /\ UNCHANGED <<subs, subscription, running, mon_buffer, vars_task,
                           run0>>
    /\ UNCHANGED <<vars_cfg, vars_size, ctl_call, ctl_running, ctl_args, call0,
                   last_cycle, ncalls, vars_rest>>

\* stop() up to task.Wait(), or all of it when the monitor is not running.
Stop ==
    /\ Enter("stop", NoArgs)
    /\ IF running
       THEN running' = FALSE /\ ctl_pc' = "wait" /\ ctl_last' = ""
       ELSE running' = running /\ ctl_pc' = "idle" /\ ctl_last' = "not_running"
    /\ UNCHANGED <<vars_cfg, vars_size, vars_task, mon_buffer, subs,
                   subscription, ctl_running, cb, run0, last_cycle, attempts,
                   vars_rest>>

\* set_channel(id, decimated) up to the task.Wait() of its stop(), or all of
\* it when the monitor is not running.
SetChannel(a_id, a_decimated) ==
    /\ Enter("set_channel", [NoArgs EXCEPT !.id = a_id, !.decimated = a_decimated])
    /\ ctl_running' = running
    /\ IF running
       THEN /\ running' = FALSE /\ ctl_pc' = "wait" /\ ctl_last' = ""
            /\ UNCHANGED vars_cfg
       ELSE /\ id' = set_field(id, a_id)
            /\ decimated' = set_field(decimated, a_decimated)
            /\ running' = running /\ ctl_pc' = "idle" /\ ctl_last' = "not_running"
    /\ UNCHANGED <<vars_size, vars_task, mon_buffer, subs, subscription, cb,
                   run0, last_cycle, attempts, vars_rest>>

\* A Wait that returns whether or not the task has ended.
wait_returns_AtOnce(t) == TRUE

\* self.task.Wait() returns once the task has ended.
wait_returns(t) == t \in {"done", "died"}

\* task.Wait() returns (or raises what ended the task): the rest of stop(),
\* and of set_channel up to the server.subscription(...) of its start().
WaitReturn ==
    /\ ctl_pc = "wait" /\ wait_returns(task)
    /\ IF task = "died"
       THEN ctl_pc' = "idle" /\ ctl_last' = "raised" /\ UNCHANGED vars_cfg
       ELSE IF ctl_call = "stop"
       THEN ctl_pc' = "idle" /\ ctl_last' = "stopped" /\ UNCHANGED vars_cfg
       ELSE /\ id' = set_field(id, ctl_args.id)
            /\ decimated' = set_field(decimated, ctl_args.decimated)
            /\ IF ~ctl_running
               THEN ctl_pc' = "idle" /\ ctl_last' = "not_running"
               ELSE IF running
               THEN ctl_pc' = "idle" /\ ctl_last' = "AssertionError"
               ELSE ctl_pc' = "handshake" /\ ctl_last' = ""
    /\ UNCHANGED <<running, vars_size, vars_task, mon_buffer, subs,
                   subscription, ctl_call, ctl_running, ctl_args, cb, run0,
                   call0, last_cycle, attempts, ncalls, vars_rest>>

\* resize(notify_size, update_size)
Resize(n, u) ==
    /\ Enter("resize", [NoArgs EXCEPT !.notify_size = n, !.update_size = u])
    /\ notify_size' = resize(n, u).notify_size
    /\ update_size' = resize(n, u).update_size
    /\ data_ready' = resize(n, u).data_ready
    /\ ctl_pc' = "idle" /\ ctl_last' = "resized"
    /\ UNCHANGED <<running, vars_cfg, vars_task, mon_buffer, subs, subscription,
                   ctl_running, cb, run0, last_cycle, attempts, vars_rest>>

NextMon ==
    \/ Start
    \/ \E out \in HandshakeOutcomes : StartHandshake(out)
    \/ Stop
    \/ \E a_id \in IdArgs, a_decimated \in DecimatedArgs : SetChannel(a_id, a_decimated)
    \/ WaitReturn
    \/ \E n \in NotifySizes, u \in UpdateSizes : Resize(n, u)
    \/ Monitor
    \/ MonitorReadOk
    \/ \E exception \in ReadErrors : MonitorReadFail(exception)

SpecMon == InitMon /\ [][NextMon]_vars

\* A receive on the subscription's socket comes to an end: the read in
\* flight returns a block or raises EOF or a timeout, the handshake returns
\* or raises.
ReadCompletes ==
    (\E exception \in ReadErrors : MonitorReadFail(exception)) \/ MonitorReadOk
HandshakeCompletes == \E out \in HandshakeOutcomes : StartHandshake(out)

\* The monitor under a scheduler that runs every task that is ready once the
\* running one suspends (cothread's ready queue), with every receive coming
\* to an end.  The controlling flow makes its calls when it likes.
SpecMonFair ==
    /\ InitMon /\ [][NextMon]_vars
    /\ WF_vars_mon(Monitor) /\ WF_vars_mon(WaitReturn)
    /\ WF_vars_mon(ReadCompletes) /\ WF_vars_mon(HandshakeCompletes)

\* The current subscription's stream as the buffer shows it: buffer_size
\* zeros followed by the rows read so far, of which the buffer keeps the tail.
RunLog == Zeros(BufferSize) \o ReadBlock(subscription, 0, subs[subscription].pos)

\* A read of the run in progress has failed.
RunFailed == last_cycle.kind = "failed" /\ last_cycle.run = subscription

\* C12: start() fails fast: if creating the subscription fails, on_eof is
\* invoked exactly once with the error, no background task is spawned,
\* on_connect and on_data are not invoked, running stays False, and start()
\* makes no second attempt.
C12_StartFailsFast ==
    (ctl_call = "start" /\ ctl_last = "connect_failed") =>
        /\ ctl_pc = "idle"
        /\ cb.n_eof = call0.cb.n_eof + 1
        /\ \E message \in ConnectErrors :
              cb.eof_text = <<"Unable to connect to server: ", message>>
        /\ task = call0.task /\ task \in {"none", "done"}
        /\ cb.n_connect = call0.cb.n_connect
        /\ cb.n_data = call0.cb.n_data
        /\ ~running /\ ~call0.running
        /\ attempts = call0.attempts + 1
        /\ Len(subs) = call0.nsubs /\ subscription = call0.subscription
        /\ reads_issued = call0.reads
        /\ mon_buffer = call0.buffer

\* start() fails on a monitor whose earlier run delivered data and has ended.
C12_Witness ==
    /\ ctl_call = "start" /\ ctl_last = "connect_failed"
    /\ call0.task = "done" /\ cb.n_data > 0 /\ cb.n_eof = 2

\* C13: after a successful start() the buffer has been reset to all zeros
\* before any block of the new run is written, and on_connect is invoked
\* exactly once for that run, before its first on_data.
C13_ResetAndConnectFirst ==
    (subscription > 0) =>
        /\ cb.n_connect - run0.n_connect <= 1
        /\ (cb.n_data > run0.n_data => cb.n_connect = run0.n_connect + 1)
        /\ (task \in {"read", "done"} => cb.n_connect = run0.n_connect + 1)
        /\ (task = "spawned" =>
              /\ mon_buffer = Zeros(BufferSize)
              /\ cb.n_connect = run0.n_connect /\ cb.n_data = run0.n_data
              /\ subs[subscription].pos = 0)
        /\ mon_buffer = PyFrom(RunLog, 0 - BufferSize)

\* The first notification of a second run, whose buffer held the first run's
\* data when start() was called.
C13_Witness ==
    /\ subscription = 2 /\ subs[1].pos > 0
    /\ cb.n_data = run0.n_data + 1 /\ cb.n_connect = run0.n_connect + 1
    /\ ctl_call = "start" /\ call0.buffer # Zeros(BufferSize)

\* C14: if a subscription read fails during the loop, the loop performs no
\* further read and no further on_data, closes the subscription, invokes
\* on_eof exactly once with the failure's text, and leaves the monitor
\* stopped (running False); the monitor never reconnects on its own, and
\* reads resume only after start() is called again.
C14_ReadFailureEndsRun ==
    RunFailed =>
        /\ ~running /\ task = "done"
        /\ ~subs[subscription].open
        /\ cb.n_eof = run0.n_eof + 1 + (attempts - last_cycle.attempts)
        /\ (attempts = last_cycle.attempts => cb.eof_text = <<last_cycle.text>>)
        /\ last_cycle.text \in ReadErrors
        /\ reads_issued = last_cycle.read_no
        /\ cb.n_data = last_cycle.n_data
        /\ Len(subs) = last_cycle.run
        /\ (ncalls = last_cycle.ncalls =>
              \/ attempts = last_cycle.attempts /\ ctl_pc # "handshake"
              \/ last_cycle.ctl = "wait" /\ ctl_call = "set_channel")

\* A read fails after an earlier read of the run was notified, with no call
\* in progress.
C14_Witness ==
    /\ RunFailed /\ last_cycle.ctl = "idle" /\ ncalls = last_cycle.ncalls
    /\ last_cycle.n_data = run0.n_data + 1
    /\ cb.eof_text = <<"timed out">>

\* C15: after each successful read of update_size samples the loop appends
\* the block to the buffer and invokes on_data exactly once with the most
\* recent notify_size samples of the buffer, as a snapshot scaled by 1e-3;
\* with update_size > notify_size (1000 and 500 in the scenario) on_data
\* receives the most recent notify_size of the samples just written, in order.
C15_NotifyNewest ==
    (last_cycle.kind = "ok" /\ last_cycle.run = subscription) =>
        LET n    == last_cycle.notify
            k    == last_cycle.samples
            rows == last_cycle.block
        IN  /\ Len(rows) = k
            /\ \A i \in 1..k : mon_buffer[BufferSize - k + i] = rows[i]
            /\ cb.n_data = last_cycle.n_data + 1
            /\ Len(cb.last_data) = n
            /\ \A i \in 1..n :
                  /\ cb.last_data[i][1].den = 1000
                  /\ cb.last_data[i][2].den = 1000
                  /\ cb.last_data[i][1].num = mon_buffer[BufferSize - n + i][1]
                  /\ cb.last_data[i][2].num = mon_buffer[BufferSize - n + i][2]
            /\ (n <= k =>
                  \A i \in 1..n :
                      /\ cb.last_data[i][1].num = rows[k - n + i][1]
                      /\ cb.last_data[i][2].num = rows[k - n + i][2])

\* One read of two samples notified with the newest one of them.
C15_Witness ==
    /\ last_cycle.kind = "ok" /\ last_cycle.run = subscription
    /\ last_cycle.samples = 2 /\ last_cycle.notify = 1
    /\ cb.n_data = 1
    /\ cb.last_data = <<<<Milli(1), Milli(2)>>>>

\* C16: stop() on a running monitor is cooperative: it clears the running
\* flag and waits for the task; the read in flight is not aborted (if it
\* completes its block is still written and notified once), no new read is
\* started after it, and when stop() returns the task has terminated, the
\* subscription is closed, on_eof has been invoked exactly once for the run
\* (with 'Stopped' when no read failed) and no on_data occurs until the next
\* start().  stop() on a monitor that is not running does nothing.
C16_StopCooperative ==
    /\ (ctl_call = "stop" /\ call0.running) =>
          /\ ~running
          /\ ctl_last \in {"", "stopped"}
          /\ reads_issued = call0.reads
          /\ subscription = call0.subscription /\ attempts = call0.attempts
          /\ cb.n_data <= call0.cb.n_data + 1
          /\ (ctl_pc = "wait" /\ call0.task = "read" /\ task = "read") =>
                (task_samples = call0.samples /\ cb = call0.cb
                    /\ mon_buffer = call0.buffer)
          /\ (call0.task = "read" /\ task = "done" /\ ~RunFailed) =>
                /\ last_cycle.kind = "ok" /\ last_cycle.read_no = call0.reads
                /\ cb.n_data = call0.cb.n_data + 1
                /\ mon_buffer = buffer_write(call0.buffer, last_cycle.block).array
                /\ Len(last_cycle.block) = call0.samples
          /\ (call0.task = "spawned" \/ RunFailed) => cb.n_data = call0.cb.n_data
          /\ (ctl_last = "stopped") =>
                /\ ctl_pc = "idle" /\ task = "done"
                /\ ~subs[subscription].open
                /\ cb.n_eof = run0.n_eof + 1
                /\ cb.n_connect = run0.n_connect + 1
                /\ (~RunFailed => cb.eof_text = <<"Stopped">>)
                /\ (RunFailed => cb.eof_text = <<last_cycle.text>>)
    /\ (ctl_call = "stop" /\ ~call0.running) =>
          /\ ctl_last = "not_running" /\ ctl_pc = "idle"
          /\ ~running /\ cb = call0.cb /\ task = call0.task
          /\ mon_buffer = call0.buffer /\ attempts = call0.attempts
          /\ subscription = call0.subscription /\ reads_issued = call0.reads
    /\ (ctl_pc = "idle" /\ ~running) => task \in {"none", "done"}

\* stop() has returned after the read that was in flight when it was called
\* completed and was notified.
C16_Witness ==
    /\ ctl_call = "stop" /\ ctl_last = "stopped"
    /\ call0.task = "read" /\ call0.cb.n_data = 1
    /\ cb.n_data = 2 /\ cb.eof_text = <<"Stopped">>
    /\ mon_buffer # call0.buffer

\* C17: whenever set_channel is called on a running monitor it stops the
\* current run, updates the requested fields and restarts, so the call always
\* results in a fresh zeroed buffer, a new subscription for the new
\* channel/decimation, and a fresh on_connect notification.
C17_AlwaysFreshRun ==
    (ctl_call = "set_channel" /\ call0.running /\ ctl_pc = "idle") =>
        /\ subscription = call0.nsubs + 1
        /\ subs[subscription].mask = <<id>>
        /\ subs[subscription].decimated = decimated
        /\ mon_buffer = PyFrom(RunLog, 0 - BufferSize)
        /\ cb.n_connect >= call0.cb.n_connect
        /\ \/ task = "spawned"
           \/ cb.n_connect = run0.n_connect + 1 /\ run0.n_connect >= call0.cb.n_connect

\* set_channel on a running monitor stops the run and stores the fields it
\* is given; if the new subscription is then set up, the buffer is zeroed,
\* the subscription is for the new id and decimation and the new task makes
\* one on_connect; if setting it up fails, on_eof reports it and the monitor
\* is left stopped, with the old buffer contents and no new on_connect.
C17_FreshRunUnlessConnectFails ==
    (ctl_call = "set_channel" /\ call0.running /\ ctl_pc = "idle") =>
        /\ (ctl_args.id.given => id = ctl_args.id.val)
        /\ (~ctl_args.id.given => id = call0.id)
        /\ (ctl_args.decimated.given => decimated = ctl_args.decimated.val)
        /\ (~ctl_args.decimated.given => decimated = call0.decimated)
        /\ ~subs[call0.subscription].open
        /\ ctl_last \in {"started", "connect_failed"}
        /\ attempts = call0.attempts + 1
        /\ (ctl_last = "started") =>
              /\ subscription = call0.nsubs + 1
              /\ subs[subscription].mask = <<id>>
              /\ subs[subscription].decimated = decimated
              /\ subs[subscription].uncork = decimated
              /\ mon_buffer = PyFrom(RunLog, 0 - BufferSize)
              /\ run0.n_eof >= call0.cb.n_eof + 1
              /\ run0.n_connect >= call0.cb.n_connect
              /\ \/ task = "spawned" /\ cb.n_connect = run0.n_connect
                    /\ mon_buffer = Zeros(BufferSize)
                 \/ task # "spawned" /\ cb.n_connect = run0.n_connect + 1
        /\ (ctl_last = "connect_failed") =>
              /\ ~running /\ task = "done"
              /\ subscription = call0.subscription /\ Len(subs) = call0.nsubs
              /\ cb.n_connect = run0.n_connect + 1
              /\ cb.n_eof = run0.n_eof + 2
              /\ \E message \in ConnectErrors :
                    cb.eof_text = <<"Unable to connect to server: ", message>>
              /\ mon_buffer = PyFrom(RunLog, 0 - BufferSize)

\* set_channel(decimated = True) restarted a run whose id had been set
\* before and whose buffer held data.
C17_Witness ==
    /\ ctl_call = "set_channel" /\ call0.running /\ ctl_last = "started"
    /\ ~ctl_args.id.given /\ ctl_args.decimated.given
    /\ id = 1 /\ subs[subscription].mask = <<1>> /\ subs[subscription].decimated
    /\ task = "read"

\* set_channel whose restart failed, leaving the previous run's data.
C17_WitnessFailed ==
    /\ ctl_call = "set_channel" /\ call0.running /\ ctl_last = "connect_failed"
    /\ mon_buffer # Zeros(BufferSize)

\* A notification has been made since the last call returned.
NotifiedSinceCall ==
    /\ ctl_pc = "idle"
    /\ last_cycle.kind = "ok" /\ last_cycle.ncalls = ncalls
    /\ last_cycle.ctl = "idle"

\* Every row of an on_data value is zero or a sample of subscription n.
RowsOf(value, n) ==
    \A i \in 1..Len(value) :
        \/ value[i][1].num = 0 /\ value[i][2].num = 0
        \/ value[i][1].num = n

\* C18: across a reconfiguration by set_channel or by resize, the buffer is
\* zeroed and the subscription is freshly re-handshaken before any new
\* on_data fires; no on_data delivered after the reconfiguration contains
\* samples received from the previous channel or decimation setting.
C18_ReconfigurationResets ==
    (ctl_call \in {"set_channel", "resize"} /\ NotifiedSinceCall) =>
        /\ last_cycle.run > call0.nsubs
        /\ RowsOf(cb.last_data, last_cycle.run)
        /\ mon_buffer = PyFrom(RunLog, 0 - BufferSize)
        /\ \A i \in 1..BufferSize :
              call0.buffer[i] # <<0, 0>> => \A j \in 1..BufferSize :
                                              mon_buffer[j] # call0.buffer[i]

\* After set_channel every on_data comes from a subscription handshaken by
\* the call, for the id and decimation now stored, and from a buffer zeroed
\* by it.  resize neither zeroes the buffer nor makes a new subscription:
\* the run goes on with the same subscription and the rows already in the
\* buffer.
C18_SetChannelResetsResizeKeeps ==
    /\ (ctl_call = "set_channel" /\ NotifiedSinceCall) =>
          /\ last_cycle.run > call0.nsubs
          /\ last_cycle.run = subscription
          /\ subs[subscription].mask = <<id>>
          /\ subs[subscription].decimated = decimated
          /\ RowsOf(cb.last_data, subscription)
          /\ mon_buffer = PyFrom(RunLog, 0 - BufferSize)
          /\ \A i \in 1..BufferSize :
                call0.buffer[i] # <<0, 0>> => \A j \in 1..BufferSize :
                                                mon_buffer[j] # call0.buffer[i]
    /\ (ctl_call = "resize") =>
          /\ ctl_pc = "idle"
          /\ Len(subs) = call0.nsubs /\ subscription = call0.subscription
          /\ attempts = call0.attempts
          /\ (last_cycle.ncalls < ncalls => mon_buffer = call0.buffer)
          /\ (subscription > 0 => mon_buffer = PyFrom(RunLog, 0 - BufferSize))
          /\ (NotifiedSinceCall => last_cycle.run = call0.subscription)

\* The first on_data after a set_channel that restarted a run whose buffer
\* held data.
C18_Witness ==
    /\ ctl_call = "set_channel" /\ NotifiedSinceCall
    /\ call0.buffer # Zeros(BufferSize)
    /\ subscription = 2 /\ cb.n_data = run0.n_data + 1

\* An on_data after resize that holds a sample read before the call.
C18_WitnessResize ==
    /\ ctl_call = "resize" /\ NotifiedSinceCall
    /\ call0.buffer[BufferSize] # <<0, 0>>
    /\ \E i \in 1..Len(cb.last_data) :
          /\ cb.last_data[i][1].num = call0.buffer[BufferSize][1]
          /\ cb.last_data[i][2].num = call0.buffer[BufferSize][2]

\* C19: resize takes effect on the next read cycle: a read already in flight
\* keeps the block size it was issued with and its notification delivers a
\* snapshot of the notify_size in force when that read began; the new sizes
\* are first used by the read cycle that starts after the call.
C19_NextCycleOnly ==
    /\ (last_cycle.kind = "ok") =>
          /\ Len(last_cycle.block) = last_cycle.samples
          /\ Len(cb.last_data) = last_cycle.notify0
    /\ (ctl_call = "resize" /\ task = "read" /\ reads_issued > call0.reads) =>
          (task_samples = ctl_args.update_size /\ task_notify = ctl_args.notify_size)

\* resize stores both sizes at once.  A read in flight keeps the block size
\* it was issued with, and update_size is first used by the next read; the
\* notification of the read in flight, like every later one, delivers
\* notify_size rows for the notify_size stored when it is made, the new one.
C19_UpdateNextNotifyNow ==
    /\ (ctl_call = "resize") =>
          /\ ctl_last = "resized"
          /\ notify_size = ctl_args.notify_size
          /\ update_size = ctl_args.update_size
          /\ data_ready = 0
          /\ (call0.task = "read" /\ task = "read" /\ reads_issued = call0.reads) =>
                (task_samples = call0.samples /\ cb = call0.cb)
          /\ (task = "read" /\ reads_issued > call0.reads) =>
                task_samples = ctl_args.update_size
          /\ (last_cycle.kind = "ok" /\ last_cycle.ncalls = ncalls) =>
                Len(cb.last_data) = ctl_args.notify_size
    /\ (last_cycle.kind = "ok") =>
          /\ Len(last_cycle.block) = last_cycle.samples
          /\ Len(cb.last_data) = last_cycle.notify

\* The read in flight during a resize that changed both sizes has completed.
C19_Witness ==
    /\ ctl_call = "resize" /\ call0.task = "read"
    /\ last_cycle.kind = "ok" /\ last_cycle.read_no = call0.reads
    /\ last_cycle.ncalls = ncalls
    /\ last_cycle.notify0 # last_cycle.notify
    /\ last_cycle.samples # last_cycle.update
    /\ Len(cb.last_data) = last_cycle.notify

(***************************************************************************)
(* One task, one subscription; set_channel's frame                         *)
(***************************************************************************)

\* The task has been spawned and has not ended.
TaskAlive == task \in {"spawned", "read"}

\* The subscriptions that have not been closed.
OpenSubs == {i \in 1..Len(subs) : subs[i].open}

C30_SetChannelFrame ==
    /\ (ctl_call = "set_channel" /\ ctl_pc = "wait") =>
          (id = call0.id /\ decimated = call0.decimated)
    /\ (ctl_call = "set_channel" /\ ctl_pc \in {"idle", "handshake"}
            /\ ctl_last # "raised") =>
          /\ id = (IF ctl_args.id.given THEN ctl_args.id.val ELSE call0.id)
          /\ decimated = (IF ctl_args.decimated.given
                          THEN ctl_args.decimated.val ELSE call0.decimated)
    /\ (ctl_call = "set_channel" /\ ~call0.running) =>
          /\ ctl_pc = "idle" /\ ctl_last = "not_running"
          /\ ~running
          /\ Len(subs) = call0.nsubs /\ attempts = call0.attempts
          /\ subscription = call0.subscription
          /\ mon_buffer = call0.buffer
          /\ cb = call0.cb
          /\ task = call0.task /\ ~TaskAlive

\* On a stopped monitor with id 1 and decimated True, set_channel(id = 0)
\* has set id to 0 and left decimated True.
C30_Witness ==
    /\ ctl_call = "set_channel" /\ ctl_pc = "idle" /\ ~call0.running
    /\ call0.id = 1 /\ call0.decimated = TRUE
    /\ ctl_args.id = [given |-> TRUE, val |-> 0]
    /\ ~ctl_args.decimated.given
    /\ id = 0 /\ decimated = TRUE

(***************************************************************************)
(* The order of the callbacks                                              *)
(***************************************************************************)

\* The i-th callback is made inside a run: an on_connect precedes it with
\* nothing but on_data between the two.
InRunBefore(i) ==
    \E j \in 1..(i - 1) :
        /\ cb.trace[j].ev = "connect"
        /\ \A k \in (j + 1)..(i - 1) : cb.trace[k].ev = "data"

\* The text start() hands to on_eof when the subscription failed.
ConnectFailure(text) ==
    Len(text) = 2 /\ text[1] = "Unable to connect to server: "

\* The on_eof calls made by start().
StartEofs ==
    {i \in 1..Len(cb.trace) :
        cb.trace[i].ev = "eof" /\ ConnectFailure(cb.trace[i].text)}

InStopOrSetChannel ==
    ctl_call \in {"stop", "set_channel"} /\ ctl_pc # "idle"

\* C35: if every in-flight subscription read eventually completes (with
\* data, EOF or a timeout) and every callback returns, then every call to
\* stop() or set_channel() made from the controlling flow eventually
\* returns, and after stop() the monitor is not running.
C35_StopReturns ==
    /\ InStopOrSetChannel ~> (ctl_pc = "idle")
    /\ []((ctl_call = "stop" /\ ctl_pc = "idle") =>
            (~running /\ ~TaskAlive /\ OpenSubs = {}))

\* stop() has returned after waiting for a task whose read was in flight
\* and brought data.
C35_Witness ==
    /\ ctl_call = "stop" /\ ctl_pc = "idle" /\ ctl_last = "stopped"
    /\ call0.task = "read" /\ cb.n_data > call0.cb.n_data
    /\ task = "done" /\ ~running

(***************************************************************************)
(* SpecQuery: decoding the server's answers to the CF, CC and CFCK         *)
(* commands (server_command and its callers)                               *)
(*                                                                         *)
(* Texts are sequences of characters, as in the mask section.  float() and *)
(* int() are modelled on plain decimal texts: optional surrounding white   *)
(* space, an optional sign, digits, and for float one optional point.      *)
(***************************************************************************)

\* Largest number of lines in a reply.
MaxFields == 3

\* self.fa_id_count = 256
DefaultIdCount == 256

\* return 10072.0
NominalFrequency == 10072

\* Lines a server can send: a decimal fraction, an integer, an error
\* message, nothing.
FieldTexts == {<<"2", ".", "5">>, <<"1", "0">>, <<"E", "r", "r">>, <<>>}

\* Replies: up to MaxFields lines separated by "\n", with or without a
\* newline after the last.
Replies ==
    UNION {{Join(<<"\n">>, f) \o tail : f \in [1..n -> FieldTexts],
                                        tail \in {<<>>, <<"\n">>}} :
           n \in 1..MaxFields}

WhiteSpace == {" ", "\n", "\t", "\r"}

\* s.strip(), which float() and int() apply to their argument
Strip(s) ==
    LET keep == {i \in 1..Len(s) : s[i] \notin WhiteSpace}
    IN  IF keep = {} THEN <<>>
        ELSE SubSeq(s, SetMin(keep),
                    CHOOSE i \in keep : \A j \in keep : j <= i)

Unsigned(t) == IF t # <<>> /\ t[1] \in {"+", "-"} THEN Tail(t) ELSE t

Sign(t) == IF t # <<>> /\ t[1] = "-" THEN 0 - 1 ELSE 1

\* int(s) returns rather than raising ValueError
int_valid(s) ==
    LET u == Unsigned(Strip(s))
    IN  u # <<>> /\ \A i \in 1..Len(u) : u[i] \in DecDigits

\* int(s)
int_value(s) == Sign(Strip(s)) * ParseD(Unsigned(Strip(s)))

\* float(s) returns rather than raising ValueError
float_valid(s) ==
    LET u == Unsigned(Strip(s))
        points == {i \in 1..Len(u) : u[i] = "."}
    IN  /\ Cardinality(points) <= 1
        /\ \A i \in 1..Len(u) : u[i] \in DecDigits \cup {"."}
        /\ \E i \in 1..Len(u) : u[i] \in DecDigits

RECURSIVE Pow10(_)
Pow10(n) == IF n = 0 THEN 1 ELSE 10 * Pow10(n - 1)

RECURSIVE Lowest(_)
\* a fraction of a power of ten in lowest such terms
Lowest(q) ==
    IF q.den > 1 /\ q.num % 10 = 0
    THEN Lowest([num |-> q.num \div 10, den |-> q.den \div 10])
    ELSE q

\* float(s), as the fraction num / den
float_value(s) ==
    LET u == Unsigned(Strip(s))
        points == {i \in 1..Len(u) : u[i] = "."}
        digits == SelectSeq(u, LAMBDA c : c # ".")
        places == IF points = {} THEN 0
                  ELSE Len(u) - (CHOOSE i \in points : TRUE)
    IN  Lowest([num |-> Sign(Strip(s)) * ParseD(digits), den |-> Pow10(places)])

Raises(exception) == [raised |-> exception, result |-> NoResult]

\* Server.__init__ with the decimation factor converted inside the try as
\* well.
Server_init_WideTry(reply) ==
    LET response == SplitOn(reply, "\n", <<>>)
    IN  IF ~float_valid(response[1]) THEN Raises("ValueError")
        ELSE IF Len(response) < 2 THEN Raises("IndexError")
        ELSE IF ~int_valid(response[2])
        THEN [raised |-> "none",
              result |->
                [NoResult EXCEPT
                    !.sample_frequency = float_value(response[1]),
                    !.fa_id_count = DefaultIdCount,
                    !.set = {"sample_frequency", "fa_id_count"}]]
        ELSE IF Len(response) < 3 THEN Raises("IndexError")
        ELSE [raised |-> "none",
              result |->
                [sample_frequency |-> float_value(response[1]),
                 decimation |-> int_value(response[2]),
                 fa_id_count |-> IF int_valid(response[3])
                                 THEN int_value(response[3])
                                 ELSE DefaultIdCount,
                 set |-> {"sample_frequency", "decimation", "fa_id_count"}]]

\* Server.__init__: response = self.server_command('CFCK\n').split('\n'),
\* then the three conversions, the last one inside try / except ValueError
Server_init(reply) ==
    LET response == SplitOn(reply, "\n", <<>>)
    IN  IF ~float_valid(response[1]) THEN Raises("ValueError")
        ELSE IF Len(response) < 2 THEN Raises("IndexError")
        ELSE IF ~int_valid(response[2]) THEN Raises("ValueError")
        ELSE IF Len(response) < 3 THEN Raises("IndexError")
        ELSE [raised |-> "none",
              result |->
                [sample_frequency |-> float_value(response[1]),
                 decimation |-> int_value(response[2]),
                 fa_id_count |-> IF int_valid(response[3])
                                 THEN int_value(response[3])
                                 ELSE DefaultIdCount,
                 set |-> {"sample_frequency", "decimation", "fa_id_count"}]]

\* get_sample_frequency: float(server_command('CF\n'))
get_sample_frequency(reply) ==
    IF ~float_valid(reply) THEN Raises("ValueError")
    ELSE [raised |-> "none",
          result |-> [NoResult EXCEPT !.sample_frequency = float_value(reply),
                                      !.set = {"sample_frequency"}]]

\* get_decimation: int(server_command('CC\n'))
get_decimation(reply) ==
    IF ~int_valid(reply) THEN Raises("ValueError")
    ELSE [raised |-> "none",
          result |-> [NoResult EXCEPT !.decimation = int_value(reply),
                                      !.set = {"decimation"}]]

\* falib.py, get_sample_frequency: sample_frequency(**kargs).frequency inside
\* try / except, where the class does float(self.recv())
get_sample_frequency_F0(reply) ==
    [raised |-> "none",
     result |-> [NoResult EXCEPT
        !.sample_frequency = IF float_valid(reply) THEN float_value(reply)
                             ELSE [num |-> NominalFrequency, den |-> 1],
        !.set = {"sample_frequency"}]]

InitQuery ==
    /\ q_reply \in Replies
    /\ q_op = "none" /\ q_raised = "none" /\ q_result = NoResult
    /\ IdleMask /\ IdleBuf /\ IdleConn /\ IdleMon /\ IdleAudio /\ IdleMean /\ IdleBins
    /\ IdleLate

\* One query is made and ends.
Query(op, outcome) ==
    /\ q_op = "none"
    /\ q_op' = op
    /\ q_raised' = outcome.raised
    /\ q_result' = outcome.result
    /\ UNCHANGED <<q_reply, vars_main, vars_audio, vars_mean, vars_bins,
                   vars_late>>

NextQuery ==
    \/ Query("Server", Server_init(q_reply))
    \/ Query("get_sample_frequency", get_sample_frequency(q_reply))
    \/ Query("get_decimation", get_decimation(q_reply))
    \/ Query("get_sample_frequency_F0", get_sample_frequency_F0(q_reply))

SpecQuery == InitQuery /\ [][NextQuery]_vars

\* The lines of the reply.
QLines == SplitOn(q_reply, "\n", <<>>)

\* C26: a non-numeric sample frequency, decimation factor or id count in a
\* reply always ends the query with an exception; no default value takes
\* its place.
C26_MalformedIsHardError ==
    /\ (q_op = "Server" /\ q_raised = "none") =>
          /\ Len(QLines) >= 3
          /\ float_valid(QLines[1]) /\ int_valid(QLines[2])
          /\ int_valid(QLines[3])
    /\ (q_op \in {"get_sample_frequency", "get_sample_frequency_F0"}
            /\ q_raised = "none") => float_valid(q_reply)
    /\ (q_op = "get_decimation" /\ q_raised = "none") => int_valid(q_reply)

\* What holds of the code: a bad sample frequency or decimation factor is
\* an exception in fa_archiver/falib; a bad id count becomes 256, and
\* falib.py's get_sample_frequency turns every failure into 10072.0.
C26_DefaultsInTwoPlaces ==
    /\ (q_op = "Server") =>
          /\ (q_raised = "none") <=>
                /\ Len(QLines) >= 3
                /\ float_valid(QLines[1]) /\ int_valid(QLines[2])
          /\ (q_raised = "none") =>
                /\ q_result.sample_frequency = float_value(QLines[1])
                /\ q_result.decimation = int_value(QLines[2])
                /\ q_result.fa_id_count =
                      IF int_valid(QLines[3]) THEN int_value(QLines[3])
                      ELSE DefaultIdCount
    /\ (q_op = "get_sample_frequency") =>
          ((q_raised = "none") <=> float_valid(q_reply))
    /\ (q_op = "get_decimation") =>
          ((q_raised = "none") <=> int_valid(q_reply))
    /\ (q_op = "get_sample_frequency_F0") =>
          /\ q_raised = "none"
          /\ q_result.sample_frequency =
                IF float_valid(q_reply) THEN float_value(q_reply)
                ELSE [num |-> NominalFrequency, den |-> 1]

\* Server() returned with the error message in the id count line replaced
\* by 256.
C26_IdCountDefaulted ==
    /\ q_op = "Server" /\ q_raised = "none"
    /\ q_reply = <<"2", ".", "5", "\n", "1", "0", "\n", "E", "r", "r", "\n">>
    /\ q_result.fa_id_count = DefaultIdCount

(***************************************************************************)
(* SpecAudio: the audio players (audio/audio.py, audio/player.py)          *)
(*                                                                         *)
(* Three cothreads: the command loop, the subscriber task of each Sub, and *)
(* the player task.  They change hands where one suspends: in the          *)
(* subscription constructor, in sub.read, in queue.Wait, in poll_list, in  *)
(* process.Wait and while the command loop waits for input.                *)
(***************************************************************************)

\* Bound on the number of blocks read from the archiver in one behaviour.
MaxBlocks == 3

\* Bound on the number of Sub objects created in one behaviour.
MaxSubs == 2

\* FA ids asked for on the command line and by the b command.
BpmChoices == {1, 2}

\* The condition under which the queue takes one more block.
queue_has_room_UpToTwo(queue) == Len(queue) <= 2

\* if len(self.queue) <= 1:
queue_has_room(queue) == Len(queue) <= 1

\* Sub.__init__: self.running = True; self.process = cothread.Spawn(...)
NewSub(bpm) ==
    [running |-> TRUE, task |-> "spawned", bpm |-> bpm, open |-> FALSE]

\* The test of "while self.running" and, when it fails, sub.close() and the
\* end of the task.
SubLoop(i, ss) ==
    [ss EXCEPT ![i].task = IF ss[i].running THEN "read" ELSE "done",
               ![i].open = ss[i].running]

InitAudio ==
    /\ a_variant \in {"audio", "player"}
    /\ a_queue = <<>>
    /\ \E bpm \in BpmChoices : a_subs = <<NewSub(bpm)>>
    /\ a_sub = 1
    /\ a_shell = "idle" /\ a_arg = 0
    /\ a_player = "wait" /\ a_hand = <<>> /\ a_played = <<>>
    /\ a_log = <<>> /\ a_exited = FALSE
    /\ IdleMask /\ IdleBuf /\ IdleConn /\ IdleMon /\ IdleQuery /\ IdleMean /\ IdleBins
    /\ IdleLate

vars_not_audio == <<vars_main, vars_query, vars_mean, vars_bins, vars_late>>

\* The subscriber task runs: the subscription constructor returns or
\* raises.  audio.py prints the error and calls os._exit(0); player.py lets
\* the exception end the task.
SubConnect(i, ok) ==
    /\ ~a_exited
    /\ a_subs[i].task = "spawned"
    /\ IF ok
       THEN /\ a_subs' = SubLoop(i, [a_subs EXCEPT ![i].open = TRUE])
            /\ UNCHANGED a_exited
       ELSE /\ a_subs' = [a_subs EXCEPT ![i].task = "died"]
            /\ a_exited' = (a_variant = "audio")
    /\ UNCHANGED <<a_variant, a_queue, a_sub, a_shell, a_arg, a_player, a_hand,
                   a_played, a_log, vars_not_audio>>

\* block = sub.read(1000) returns: the block is queued if the queue has
\* room and forgotten otherwise, and the loop test follows.
SubRead(i) ==
    /\ ~a_exited
    /\ a_subs[i].task = "read"
    /\ Len(a_log) < MaxBlocks
    /\ LET blk == [sub |-> i, n |-> Len(a_log) + 1]
           keep == queue_has_room(a_queue)
       IN  /\ a_queue' = IF keep THEN Append(a_queue, blk) ELSE a_queue
           /\ a_log' = Append(a_log, [blk |-> blk, qlen |-> Len(a_queue),
                                      kept |-> keep])
    /\ a_subs' = SubLoop(i, a_subs)
    /\ UNCHANGED <<a_variant, a_sub, a_shell, a_arg, a_player, a_hand,
                   a_played, a_exited, vars_not_audio>>

\* sub.read raises: nothing catches it in the task, which ends without
\* closing the subscription.
SubReadFails(i) ==
    /\ ~a_exited
    /\ a_subs[i].task = "read"
    /\ a_subs' = [a_subs EXCEPT ![i].task = "died"]
    /\ UNCHANGED <<a_variant, a_queue, a_sub, a_shell, a_arg, a_player, a_hand,
                   a_played, a_log, a_exited, vars_not_audio>>

\* queue.Wait() returns the oldest block; the player scales it and, having
\* more than 4096 bytes to write, suspends in poll_list.
PlayerTake ==
    /\ ~a_exited
    /\ a_player = "wait" /\ a_queue # <<>>
    /\ a_hand' = <<Head(a_queue)>>
    /\ a_queue' = Tail(a_queue)
    /\ a_player' = "write"
    /\ UNCHANGED <<a_variant, a_subs, a_sub, a_shell, a_arg, a_played, a_log,
                   a_exited, vars_not_audio>>

\* The block has been written to aplay but for a rest of at most 4096
\* bytes, and the player is back in queue.Wait().
PlayerWritten ==
    /\ ~a_exited
    /\ a_player = "write"
    /\ a_played' = a_played \o a_hand
    /\ a_hand' = <<>>
    /\ a_player' = "wait"
    /\ UNCHANGED <<a_variant, a_queue, a_subs, a_sub, a_shell, a_arg, a_log,
                   a_exited, vars_not_audio>>

\* The b command, set_bpm: self.sub.close() sets running to False and
\* suspends in self.process.Wait().
SetBpm(bpm) ==
    /\ ~a_exited
    /\ a_shell = "idle"
    /\ Len(a_subs) < MaxSubs
    /\ a_subs' = [a_subs EXCEPT ![a_sub].running = FALSE]
    /\ a_arg' = bpm
    /\ a_shell' = "wait"
    /\ UNCHANGED <<a_variant, a_queue, a_sub, a_player, a_hand, a_played,
                   a_log, a_exited, vars_not_audio>>

\* process.Wait() returns once the task has ended, and the new Sub is made
\* on the same queue.
SetBpmReturn ==
    /\ ~a_exited
    /\ a_shell = "wait"
    /\ a_subs[a_sub].task \in {"done", "died"}
    /\ a_subs' = Append(a_subs, NewSub(a_arg))
    /\ a_sub' = Len(a_subs) + 1
    /\ a_shell' = "idle"
    /\ UNCHANGED <<a_variant, a_queue, a_arg, a_player, a_hand, a_played,
                   a_log, a_exited, vars_not_audio>>

NextAudio ==
    \/ \E i \in 1..Len(a_subs), ok \in BOOLEAN : SubConnect(i, ok)
    \/ \E i \in 1..Len(a_subs) : SubRead(i)
    \/ \E i \in 1..Len(a_subs) : SubReadFails(i)
    \/ PlayerTake
    \/ PlayerWritten
    \/ \E bpm \in BpmChoices : SetBpm(bpm)
    \/ SetBpmReturn

SpecAudio == InitAudio /\ [][NextAudio]_vars

\* The blocks of the log that were queued, in the order read.
Kept == SelectSeq(a_log, LAMBDA r : r.kept)

\* C22: the queue never holds more than 2 blocks; a block is queued exactly
\* when it finds at most 1 block there, whichever subscriber read it, and
\* otherwise it is dropped whole: the blocks played, in hand and queued
\* are the queued blocks of the log, each once and in the order read; and
\* the old subscriber has ended before the new one starts.
C22_QueueBounded ==
    /\ Len(a_queue) <= 2
    /\ \A k \in 1..Len(a_log) : a_log[k].kept <=> (a_log[k].qlen <= 1)
    /\ a_played \o a_hand \o a_queue = [k \in 1..Len(Kept) |-> Kept[k].blk]
    /\ Cardinality({i \in 1..Len(a_subs) :
                        a_subs[i].task \in {"spawned", "read"}}) <= 1

\* The second subscriber's block found the queue full and was dropped,
\* after two blocks of the first had been queued.
C22_Witness ==
    /\ Len(a_queue) = 2 /\ Len(a_subs) = 2
    /\ Len(a_log) = 3
    /\ a_log[3].blk.sub = 2 /\ ~a_log[3].kept
    /\ a_queue[1].sub = 1

(***************************************************************************)
(* SpecMean: the running mean kept by the spectrum monitors' loop          *)
(* (Monitor.monitor) and by class mean of lines/lines.py                   *)
(*                                                                         *)
(* The arrays are stood for by one number each; means are fractions.  The  *)
(* n-th pair computed has the values PairAt(n), all different, so that a   *)
(* total tells which pairs went into it.                                   *)
(***************************************************************************)

\* Bound on the number of pairs computed in one behaviour.
MaxPairs == 5

\* Bound on the number of outside events (writes to the target PV, updates
\* of the qualifier PV, reconnections, RESET) in one behaviour.
MaxEvents == 2

\* Largest target written; the PV's limits keep it at 1 or more.
MaxTarget == 3

TargetChoices == 1..MaxTarget

\* What compute returns for the n-th block read.
PairAt(n) == [sum |-> n, power |-> n * n + 1]

\* Emission when the count has passed the target.
reached_target_Past(cnt, target) == cnt > target

\* if count >= self.target_pv.get():
reached_target(cnt, target) == cnt >= target

\* count += 1; total_sum += sum; total_power += power
accumulate(acc, pair) ==
    [count |-> acc.count + 1, sum |-> acc.sum + pair.sum,
     power |-> acc.power + pair.power]

\* total_sum / count, total_power / count
mean_of(acc) ==
    [sum |-> [num |-> acc.sum, den |-> acc.count],
     power |-> [num |-> acc.power, den |-> acc.count]]

\* A target write that empties the accumulator.
set_target_Reset(acc, target) == [target |-> target, acc |-> ZeroAcc]

\* mean.set_target: self.target = target; the spectrum monitors read
\* target_pv afresh at each test.  Nothing else is touched.
set_target(acc, target) == [target |-> target, acc |-> acc]

\* One pass of the loop body after compute, in each program: the new
\* accumulator, the means emitted (none or one) and the value written to
\* count_pv.
loop_body(prog, acc, pair, target, run) ==
    LET added == accumulate(acc, IF prog = "lines"
                                 THEN [pair EXCEPT !.power = 0] ELSE pair)
        emits == reached_target(added.count, target)
        after == IF emits THEN ZeroAcc ELSE added
    IN  IF prog = "spectrum" /\ ~run
        THEN [acc |-> ZeroAcc, emitted |-> <<>>, count_pv |-> 0]
        ELSE [acc |-> after,
              emitted |-> IF emits THEN <<mean_of(added)>> ELSE <<>>,
              count_pv |-> IF prog = "spectrum" THEN after.count
                           ELSE added.count]

NPairs == Cardinality({k \in 1..Len(m_log) : m_log[k].kind = "pair"})

NEvents == Len(m_log) - NPairs

\* An entry of the log.
Entry(kind, n, target, run, emit, acc1) ==
    [kind |-> kind, n |-> n, target |-> target, running |-> run,
     emit |-> emit, acc0 |-> m_acc, acc1 |-> acc1]

InitMean ==
    /\ m_variant \in {"spectrum", "spectrum0", "lines"}
    /\ m_running = TRUE
    /\ m_target \in TargetChoices
    /\ m_acc = ZeroAcc /\ m_count_pv = 0
    /\ m_log = <<>> /\ m_emitted = <<>>
    /\ IdleMask /\ IdleBuf /\ IdleConn /\ IdleMon /\ IdleQuery /\ IdleAudio /\ IdleBins
    /\ IdleLate

vars_not_mean == <<vars_main, vars_query, vars_audio, vars_bins, vars_late>>

\* sub.read returns, compute returns the next pair, the loop body runs.
Compute ==
    /\ NPairs < MaxPairs
    /\ LET n == NPairs + 1
           r == loop_body(m_variant, m_acc, PairAt(n), m_target, m_running)
       IN  /\ m_acc' = r.acc
           /\ m_count_pv' = r.count_pv
           /\ m_emitted' = m_emitted \o
                [i \in 1..Len(r.emitted) |->
                    [at |-> Len(m_log) + 1, target |-> m_target,
                     mean |-> r.emitted[i]]]
           /\ m_log' = Append(m_log, Entry("pair", n, m_target, m_running,
                                      r.emitted # <<>>, r.acc))
    /\ UNCHANGED <<m_variant, m_running, m_target, vars_not_mean>>

\* The target PV is written with another value while the loop is suspended
\* in sub.read.
SetTarget(target) ==
    /\ NEvents < MaxEvents
    /\ target # m_target
    /\ m_target' = set_target(m_acc, target).target
    /\ m_acc' = set_target(m_acc, target).acc
    /\ m_log' = Append(m_log, Entry("target", 0, target, m_running, FALSE,
                                  set_target(m_acc, target).acc))
    /\ UNCHANGED <<m_variant, m_running, m_count_pv, m_emitted, vars_not_mean>>

\* spectrum/spectrum.py, __on_update: the qualifier PV crosses the
\* threshold and self.running changes.
OnUpdate(run) ==
    /\ NEvents < MaxEvents
    /\ m_variant = "spectrum"
    /\ run # m_running
    /\ m_running' = run
    /\ m_log' = Append(m_log, Entry("running", 0, m_target, run, FALSE, m_acc))
    /\ UNCHANGED <<m_variant, m_target, m_acc, m_count_pv, m_emitted,
                   vars_not_mean>>

\* sub.read raises; run() prints, sleeps and calls monitor() again, which
\* starts from count = 0 and zero totals (lines.py: mean.reset() after the
\* new subscription).
Reconnect ==
    /\ NEvents < MaxEvents
    /\ m_acc' = ZeroAcc
    /\ m_log' = Append(m_log, Entry("reconnect", 0, m_target, m_running, FALSE,
                                  ZeroAcc))
    /\ UNCHANGED <<m_variant, m_running, m_target, m_count_pv, m_emitted,
                   vars_not_mean>>

\* lines.py: the RESET action calls mean.reset().
ResetMean ==
    /\ NEvents < MaxEvents
    /\ m_variant = "lines"
    /\ m_acc' = ZeroAcc
    /\ m_log' = Append(m_log, Entry("reset", 0, m_target, m_running, FALSE, ZeroAcc))
    /\ UNCHANGED <<m_variant, m_running, m_target, m_count_pv, m_emitted,
                   vars_not_mean>>

NextMean ==
    \/ Compute
    \/ \E target \in TargetChoices : SetTarget(target)
    \/ \E run \in BOOLEAN : OnUpdate(run)
    \/ Reconnect
    \/ ResetMean

SpecMean == InitMean /\ [][NextMean]_vars

\* Entries after which the accumulator is empty whatever it held: an
\* emission, a pair computed while paused, a reconnection, a RESET.
Boundary(r) ==
    \/ r.kind \in {"reconnect", "reset"}
    \/ r.kind = "pair" /\ (r.emit \/ (m_variant = "spectrum" /\ ~r.running))

\* The last boundary before entry k, 0 if there is none.
GroupStart(k) ==
    LET bs == {j \in 1..(k - 1) : Boundary(m_log[j])}
    IN  IF bs = {} THEN 0 ELSE CHOOSE j \in bs : \A i \in bs : i <= j

\* The pairs from there up to entry k.
Group(k) == {j \in (GroupStart(k) + 1)..k : m_log[j].kind = "pair"}

\* Entries other than pairs among them: target writes, qualifier updates.
GroupEvents(k) == {j \in (GroupStart(k) + 1)..k : m_log[j].kind # "pair"}

RECURSIVE SumOfSums(_)
\* The sum values of the pairs at the log entries S, added up.
SumOfSums(S) ==
    IF S = {} THEN 0
    ELSE LET j == CHOOSE x \in S : TRUE
         IN  PairAt(m_log[j].n).sum + SumOfSums(S \ {j})

RECURSIVE SumOfPowers(_)
SumOfPowers(S) ==
    IF S = {} THEN 0
    ELSE LET j == CHOOSE x \in S : TRUE
         IN  PairAt(m_log[j].n).power + SumOfPowers(S \ {j})

GroupSum(k) == SumOfSums(Group(k))

GroupPower(k) == IF m_variant = "lines" THEN 0 ELSE SumOfPowers(Group(k))

EmittedAt(k) == {i \in 1..Len(m_emitted) : m_emitted[i].at = k}

\* C23: over a stretch in which the monitor is running and the target T is
\* not written, starting from an empty accumulator, every pair is added, a
\* mean is emitted exactly on the T-th pair, it is the totals of those T
\* pairs divided by T, and count and totals are zero right after: each
\* pair is in the one mean emitted at the end of its group.
C23_MeanEveryTth ==
    \A k \in 1..Len(m_log) :
        (m_log[k].kind = "pair" /\ m_log[k].running /\ GroupEvents(k) = {}) =>
            LET T == m_log[k].target
                n == Cardinality(Group(k))
            IN  /\ n <= T
                /\ m_log[k].emit <=> (n = T)
                /\ Cardinality(EmittedAt(k)) = (IF n = T THEN 1 ELSE 0)
                /\ \A i \in EmittedAt(k) :
                      /\ m_emitted[i].mean.sum =
                            [num |-> GroupSum(k), den |-> T]
                      /\ m_emitted[i].mean.power =
                            [num |-> GroupPower(k), den |-> T]
                /\ m_log[k].acc1 =
                      IF n = T THEN ZeroAcc
                      ELSE [count |-> n, sum |-> GroupSum(k),
                            power |-> GroupPower(k)]

\* Two means of two pairs each have been emitted, the second of pairs 3
\* and 4.
C23_Witness ==
    /\ Len(m_emitted) = 2 /\ NEvents = 0 /\ m_target = 2
    /\ m_emitted[2].at = 4
    /\ m_emitted[2].mean.sum = [num |-> 7, den |-> 2]
    /\ m_acc = ZeroAcc

\* C24: a write to the target resets count and totals at once, and no mean
\* averages more pairs than the target in force when it is emitted.
C24_ResetOnTargetChange ==
    /\ \A k \in 1..Len(m_log) :
          m_log[k].kind = "target" => m_log[k].acc1 = ZeroAcc
    /\ \A i \in 1..Len(m_emitted) :
          m_emitted[i].mean.sum.den <= m_emitted[i].target

\* What holds of the code: a write to the target leaves count and totals
\* as they are; the new target is compared with the count at the next
\* pair.  A mean averages all the pairs of its group, at least as many as
\* the target in force, and more only if the target was written since the
\* group began.
C24_TargetChangeKeeps ==
    /\ \A k \in 1..Len(m_log) :
          m_log[k].kind = "target" => m_log[k].acc1 = m_log[k].acc0
    /\ \A i \in 1..Len(m_emitted) :
          LET k == m_emitted[i].at
              n == m_emitted[i].mean.sum.den
          IN  /\ n = Cardinality(Group(k))
              /\ n >= m_emitted[i].target
              /\ m_emitted[i].mean.sum.num = GroupSum(k)
              /\ (n > m_emitted[i].target) =>
                    \E j \in GroupEvents(k) : m_log[j].kind = "target"

\* The target was lowered from 3 to 1 after two pairs; the third pair
\* emitted a mean of three.
C24_Witness ==
    /\ Len(m_emitted) = 1
    /\ m_emitted[1].target = 1 /\ m_emitted[1].mean.sum.den = 3
    /\ Len(m_log) = 4 /\ m_log[3].kind = "target"

(***************************************************************************)
(* SpecBins: the bin boundaries computed by Compute.__init__               *)
(*                                                                         *)
(* fft_freqs[i] is 0.5 * F_S * i / H.  Frequencies are whole numbers of    *)
(* hertz and F_S and H powers of two, so every fft_freqs[i] is exact in    *)
(* floating point and comparisons are made on F_S * i against 2 * H * f.   *)
(***************************************************************************)

\* Largest frequency asked for.
MaxFrequency == 6

HalfSampleSizes == {2, 4}

SampleFrequencies == {8, 16}

\* Every strictly increasing list of frequencies from 1 to MaxFrequency.
FrequencyLists == {SortedSet(S) : S \in (SUBSET (1..MaxFrequency)) \ {{}}}

\* fft_freqs.searchsorted(f), side = 'left': the number of entries of
\* fft_freqs below f, which is len(fft_freqs) when f is above them all
searchsorted(fs, half, f) ==
    Cardinality({i \in 0..(half - 1) : fs * i < 2 * half * f})

\* numpy.concatenate(([0], fft_freqs.searchsorted(frequencies)))
bins_of(fs, half, frequencies) ==
    <<0>> \o [k \in 1..Len(frequencies) |-> searchsorted(fs, half, frequencies[k])]

\* fft_freqs[self.bins] raises IndexError if an index is out of range
IndexInRange(half, bins) == \A k \in 1..Len(bins) : bins[k] <= half - 1

\* numpy.diff(fft_freqs[self.bins])
bin_scale_of(fs, half, bins) ==
    [k \in 1..(Len(bins) - 1) |->
        [num |-> fs * (bins[k + 1] - bins[k]), den |-> 2 * half]]

InitBins ==
    /\ b_half \in HalfSampleSizes
    /\ b_fs \in SampleFrequencies
    /\ b_frequencies \in FrequencyLists
    /\ b_op = "none" /\ b_raised = "none"
    /\ b_bins = <<>> /\ b_fft_length = 0 /\ b_bin_scale = <<>>
    /\ IdleMask /\ IdleBuf /\ IdleConn /\ IdleMon
    /\ IdleQuery /\ IdleAudio /\ IdleMean /\ IdleLate

\* Compute.__init__ up to self.bin_scale: self.bins and self.fft_length
\* are set, then the indexing of fft_freqs raises or bin_scale is set.
ComputeInit ==
    /\ b_op = "none"
    /\ b_op' = "init"
    /\ b_bins' = bins_of(b_fs, b_half, b_frequencies)
    /\ b_fft_length' = b_bins'[Len(b_bins')] + 1
    /\ IF IndexInRange(b_half, b_bins')
       THEN /\ b_raised' = "none"
            /\ b_bin_scale' = bin_scale_of(b_fs, b_half, b_bins')
       ELSE /\ b_raised' = "IndexError"
            /\ UNCHANGED b_bin_scale
    /\ UNCHANGED <<b_half, b_fs, b_frequencies, vars_main, vars_query,
                   vars_audio, vars_mean, vars_late>>

NextBins == ComputeInit

SpecBins == InitBins /\ [][NextBins]_vars

\* A frequency above fft_freqs[H - 1], the highest bin frequency.
AboveHighest(f) == 2 * b_half * f > b_fs * (b_half - 1)

\* C25: the boundary list starts with bin 0, never decreases, holds only
\* indices 0..H-1, and a frequency above the highest bin frequency gets the
\* last valid index, with no error.
C25_BinsSaturate ==
    (b_op = "init") =>
        /\ b_raised = "none"
        /\ b_bins[1] = 0
        /\ \A k \in 1..(Len(b_bins) - 1) : b_bins[k] <= b_bins[k + 1]
        /\ \A k \in 1..Len(b_bins) : b_bins[k] \in 0..(b_half - 1)
        /\ \A k \in 1..Len(b_frequencies) :
              AboveHighest(b_frequencies[k]) => b_bins[k + 1] = b_half - 1

\* What holds of the code: the list starts with 0 and never decreases; a
\* frequency above the highest bin frequency gets index H, and then the
\* constructor ends with IndexError; otherwise every index is valid.
C25_BinsOrIndexError ==
    (b_op = "init") =>
        /\ Len(b_bins) = Len(b_frequencies) + 1
        /\ b_bins[1] = 0
        /\ \A k \in 1..(Len(b_bins) - 1) : b_bins[k] <= b_bins[k + 1]
        /\ \A k \in 1..Len(b_frequencies) :
              IF AboveHighest(b_frequencies[k]) THEN b_bins[k + 1] = b_half
              ELSE b_bins[k + 1] \in 0..(b_half - 1)
        /\ (b_raised = "IndexError") <=>
              \E k \in 1..Len(b_frequencies) : AboveHighest(b_frequencies[k])
        /\ b_raised \in {"none", "IndexError"}

\* H = 4 and F_S = 8 give bin frequencies 0, 1, 2, 3; the frequency 4 got
\* index 4 and the constructor raised.
C25_BeyondLastBin ==
    /\ b_op = "init" /\ b_half = 4 /\ b_fs = 8
    /\ b_frequencies = <<1, 4>>
    /\ b_bins = <<0, 1, 4>> /\ b_raised = "IndexError"

(***************************************************************************)
(* The rolling buffer against an unbounded log (viewer/buffer.py)          *)
(***************************************************************************)

\* Rows written between two resets.
MaxLogRows == 7

\* Blocks of 1 to capacity rows.
ValidBlocks == UNION {[1..n -> SampleVals] : n \in 1..BufferSize}

\* The last n entries of a sequence at least n long.
LastN(s, n) == SubSeq(s, Len(s) - n + 1, Len(s))

InitLog ==
    /\ l_buffer = buffer_init(BufferSize)
    /\ l_log = Zeros(BufferSize)
    /\ IdleMask /\ IdleBuf /\ IdleConn /\ IdleMon
    /\ IdleQuery /\ IdleAudio /\ IdleMean /\ IdleBins
    /\ IdleOverlap /\ IdlePermute

vars_not_log == <<vars_main, vars_query, vars_audio, vars_mean, vars_bins,
                  vars_overlap, vars_permute>>

\* buffer.write(block); the log takes the rows in write order.
LogWrite(blk) ==
    /\ Len(l_log) + Len(blk) <= BufferSize + MaxLogRows
    /\ ~buffer_write(l_buffer, blk).raised
    /\ l_buffer' = buffer_write(l_buffer, blk).array
    /\ l_log' = l_log \o blk
    /\ UNCHANGED vars_not_log

\* buffer.reset(); the log starts again from capacity zeros.
LogReset ==
    /\ l_buffer' = buffer_reset(l_buffer)
    /\ l_log' = Zeros(BufferSize)
    /\ UNCHANGED vars_not_log

NextLog ==
    \/ \E blk \in ValidBlocks : LogWrite(blk)
    \/ LogReset

SpecLog == InitLog /\ [][NextLog]_vars

\* C33: after any sequence of write calls (each with 1 <= len(block) <=
\* capacity) following construction or the last reset, the buffer contents
\* equal the last capacity entries of the sequence formed by capacity zeros
\* followed by all blocks written since then, concatenated in write order.
C33_RefinesLog ==
    /\ Len(l_log) >= BufferSize
    /\ l_buffer = LastN(l_log, BufferSize)

\* More than two capacities of rows written since the last reset, the
\* buffer holding rows that differ.
C33_Witness ==
    /\ Len(l_log) > 2 * BufferSize
    /\ l_buffer[1] # l_buffer[2] /\ l_buffer[BufferSize] # <<0, 0>>
    /\ l_log[BufferSize + 1] # <<0, 0>>

(***************************************************************************)
(* Overlapping transforms (spectrum/spectrum.py, spectrum.py: Compute)     *)
(***************************************************************************)

\* Calls of compute on one Compute object.
MaxComputes == 3

\* half_sample_size
OverlapHalfSizes == {1, 2}

\* What one sample slab (all ids, both axes) can hold; 0 is what the
\* constructor fills self.last with.
OverlapSamples == {0, 1, 2}

\* numpy.zeros((half_sample_size, id_count, 2))
ZeroHalf(h) == [k \in 1..h |-> 0]

\* x * self.window: the k-th sample multiplied by the k-th window weight,
\* kept as the pair of the two.
Windowed(cat) == [k \in 1..Len(cat) |-> [x |-> cat[k], w |-> k]]

\* compute that leaves self.last as it was.
compute_KeepLast(last, data) ==
    [block |-> Windowed(last \o data), last |-> last]

\* Compute.compute, up to the transform:
\*     block = numpy.concatenate((self.last, data)) * self.window
\*     self.last = data
compute(last, data) ==
    [block |-> Windowed(last \o data), last |-> data]

InitOverlap ==
    /\ o_half \in OverlapHalfSizes
    /\ o_last = ZeroHalf(o_half)
    /\ o_log = <<>>
    /\ IdleMask /\ IdleBuf /\ IdleConn /\ IdleMon
    /\ IdleQuery /\ IdleAudio /\ IdleMean /\ IdleBins
    /\ IdleLog /\ IdlePermute

\* sub.read(HALF_SAMPLE_SIZE) hands over half_sample_size samples and
\* compute is called with them.
ComputeCall(data) ==
    /\ Len(o_log) < MaxComputes
    /\ o_last' = compute(o_last, data).last
    /\ o_log' = Append(o_log, [data |-> data,
                              block |-> compute(o_last, data).block])
    /\ UNCHANGED <<o_half, vars_main, vars_query, vars_audio, vars_mean,
                   vars_bins, vars_log, vars_permute>>

NextOverlap == \E data \in [1..o_half -> OverlapSamples] : ComputeCall(data)

SpecOverlap == InitOverlap /\ [][NextOverlap]_vars

\* The samples of a block, the window weights taken off.
SamplesOf(blk) == [k \in 1..Len(blk) |-> blk[k].x]

\* The half-block handed to the call before the i-th, zeros before the first.
PreviousHalf(i) == IF i = 1 THEN ZeroHalf(o_half) ELSE o_log[i - 1].data

\* C31: the i-th call compute(data_i) transforms the 2H-sample block formed
\* by the previous call's half-block followed by data_i (an all-zero
\* half-block for the first call), and afterwards stores data_i as the
\* previous half-block; hence every half-block is used in exactly two
\* consecutive transforms, first as the second half and then as the first.
C31_OverlapByHalf ==
    /\ \A i \in 1..Len(o_log) :
          /\ Len(o_log[i].block) = 2 * o_half
          /\ SamplesOf(o_log[i].block) = PreviousHalf(i) \o o_log[i].data
          /\ \A k \in 1..(2 * o_half) : o_log[i].block[k].w = k
          /\ \A j \in 1..Len(o_log) :
                (SubSeq(SamplesOf(o_log[j].block), 1, o_half) = o_log[i].data
                    /\ o_log[i].data \notin
                          {o_log[n].data : n \in 1..Len(o_log) \ {i}}
                                \cup {ZeroHalf(o_half)})
                  => j = i + 1
    /\ o_last = PreviousHalf(Len(o_log) + 1)

\* Three calls with three different non-zero half-blocks of two samples.
C31_Witness ==
    /\ Len(o_log) = 3 /\ o_half = 2
    /\ o_log[1].data = <<1, 2>> /\ o_log[2].data = <<2, 1>>
    /\ o_log[3].data = <<1, 1>>
    /\ SamplesOf(o_log[3].block) = <<2, 1, 1, 1>>

(***************************************************************************)
(* Archive order to display order (lines/lines.py, line-analyser.py)       *)
(***************************************************************************)

\* Largest channel id in a BPM list.
MaxId == 4

\* Reads made on the subscription.
MaxPermuteReads == 2

\* FA_IDS: lists of distinct non-zero ids, in any order.
IdLists ==
    {ids \in UNION {[1..n -> 1..MaxId] : n \in 1..MaxId} :
        \A i, j \in 1..Len(ids) : ids[i] = ids[j] => i = j}

\* numpy.argsort: the 0-based positions of the list's entries, smallest
\* entry first.
argsort(ids) ==
    [k \in 1..Len(ids) |->
        (CHOOSE j \in 1..Len(ids) :
            Cardinality({m \in 1..Len(ids) : ids[m] < ids[j]}) = k - 1) - 1]

\* PERMUTE taken to be the sorting permutation itself.
make_permute_Argsort(ids) == argsort(ids)

\* PERMUTE = numpy.empty(len(FA_IDS), dtype = int)
\* PERMUTE[numpy.argsort(FA_IDS)] = numpy.arange(len(FA_IDS))
make_permute(ids) ==
    [j \in 1..Len(ids) |->
        CHOOSE k \in 0..(Len(ids) - 1) : argsort(ids)[k + 1] = j - 1]

\* What the archiver holds for channel id at the n-th read, digested.
ChannelData(chan, n) == 10 * chan + n

\* The columns of one read of the subscription made with (0,) + FA_IDS:
\* one per id of the mask, in ascending id order.
ArchiveColumns(ids, n) ==
    LET cols == SortedSet({0} \cup SetOf(ids))
    IN  [c \in 1..Len(cols) |-> ChannelData(cols[c], n)]

\* r[:, 1:], the column of id 0 dropped; then iq[PERMUTE]
permuted(ids, permute, n) ==
    LET r == Tail(ArchiveColumns(ids, n))
    IN  [i \in 1..Len(permute) |-> r[permute[i] + 1]]

InitPermute ==
    /\ p_ids \in IdLists
    /\ p_permute = <<>> /\ p_op = "none" /\ p_iq = <<>>
    /\ IdleMask /\ IdleBuf /\ IdleConn /\ IdleMon
    /\ IdleQuery /\ IdleAudio /\ IdleMean /\ IdleBins
    /\ IdleLog /\ IdleOverlap

vars_not_permute == <<vars_main, vars_query, vars_audio, vars_mean, vars_bins,
                      vars_log, vars_overlap>>

\* Module start: PERMUTE is computed from FA_IDS.
MakePermute ==
    /\ p_op = "none"
    /\ p_permute' = make_permute(p_ids)
    /\ p_op' = "permute"
    /\ UNCHANGED <<p_ids, p_iq, vars_not_permute>>

\* One turn of updater.subscription's loop.
PermuteRead(n) ==
    /\ p_op \in {"permute", "read"}
    /\ p_iq' = permuted(p_ids, p_permute, n)
    /\ p_op' = "read"
    /\ UNCHANGED <<p_ids, p_permute, vars_not_permute>>

NextPermute ==
    \/ MakePermute
    \/ \E n \in 1..MaxPermuteReads : PermuteRead(n)

SpecPermute == InitPermute /\ [][NextPermute]_vars

\* C32: for any list FA_IDS of distinct non-zero channel ids in any order,
\* the permutation PERMUTE computed from argsort(FA_IDS), applied to server
\* data delivered in ascending id order (after dropping the leading column
\* of id 0), yields a result whose i-th entry is the data of channel
\* FA_IDS[i] for every i.
C32_ColumnsToNames ==
    (p_op = "read") =>
        /\ Len(p_iq) = Len(p_ids)
        /\ \E n \in 1..MaxPermuteReads :
              \A i \in 1..Len(p_ids) : p_iq[i] = ChannelData(p_ids[i], n)

\* Three ids in an order whose sorting permutation is not its own inverse.
C32_Witness ==
    /\ p_op = "read" /\ p_ids = <<2, 3, 1>>
    /\ p_permute = <<1, 2, 0>>
    /\ p_iq = <<22, 32, 12>>
====
